---- MODULE Spec2Model ----
(***************************************************************************)
(* Model of harrow: file-backed byte buffers whose views are served from a *)
(* cache of memory-mapped blocks (src/src/cache.rs), behind the File       *)
(* facade (src/src/infra.rs) and on top of the unix mapping layer          *)
(* (src/src/unix.rs).  One thread drives the facade, except in SpecThreads *)
(* where several share it.  A ViewRef / ViewMut handle is outstanding from *)
(* the call that returns it until its Drop runs, and a handle passed to    *)
(* mem::forget stays outstanding forever.                                  *)
(***************************************************************************)
EXTENDS Integers, Sequences, FiniteSets, Bags, TLC

\* ------------------------------------------------------------------ bounds
\* Mapping granularity used by the model (a page of two bytes).
Alignment == 2
\* Largest file length, in pages.
MaxPages == 3
\* Largest cache capacity a run is opened with.
MaxCapacity == 2
\* Largest number of ViewRef handles outstanding at one time.
MaxViews == 2
\* Largest byte value written.
MaxByte == 1
\* Number of threads sharing the facade.
MaxThreads == 2
\* Distance of the arguments of align_add / align_sub from 0 and from the
\* largest usize.
MaxAlignArg == 31

\* lib.rs: the cache configuration of the constructors that take none.
DEFAULT_CACHE_CAPACITY == 5
DEFAULT_CACHE_BLOCK_SIZE == 128 * 1024 * 1024

MaxFileLen == MaxPages * Alignment
\* Base addresses: one per block that can be mapped at one time.
Ptrs == 1..(MaxCapacity + MaxViews + 1)
Bytes == 0..MaxByte
None == [none |-> TRUE]
Threads == 1..MaxThreads
\* A thread outside every cache call.
Idle == [pc |-> "idle", off |-> 0, n |-> 0, block |-> None]
IdleThreads == [t \in Threads |-> Idle]

\* usize: offsets and lengths are machine words.  The largest word is one
\* below a multiple of the alignment (page sizes divide 2^64) and far above
\* every file length and cache block size.
UsizeMax == 2 * Alignment * DEFAULT_CACHE_BLOCK_SIZE - 1
Usize == 0..UsizeMax
\* `a + b` and `a - b` on usize as a build without overflow checks computes
\* them; a build with overflow checks panics where Overflows / Underflows.
wadd(a, b) == (a + b) % (UsizeMax + 1)
wsub(a, b) == (a - b + UsizeMax + 1) % (UsizeMax + 1)
Overflows(a, b) == a + b > UsizeMax
Underflows(a, b) == a < b

VARIABLES
    available,          \* Cache.available: VecDeque<CachedBlock>, front first
    lent,               \* Cache.lent: Vec<CachedBlock>
    exclusive,          \* Cache.exclusive: Option<CachedBlock>
    len,                \* Cache.len: AtomicUsize
    capacity,           \* Cache.capacity
    raw_len,            \* RawFile.len
    mode,               \* File.mode
    cache_block_size,   \* File.cache_block_size
    bytes,              \* the file's bytes, shared by every MAP_SHARED mapping
    views,              \* bag of the ViewRef handles the caller holds
    mview,              \* the ViewMut handle the caller holds, or None
    forgotten,          \* bag of the handles passed to mem::forget (block mapped)
    ev,                 \* mapping-layer calls made by the last operation
    ret,                \* the last operation: name, arguments, outcome
    freed,              \* history: base pointers in the order they were freed
    wr,                 \* history: the last write_at, until something else mutates
    iter,               \* the Iter the caller holds (view, cur, cum), or None
    th                  \* per thread: its position inside Cache::take /
                        \* Cache::restore_ref and the block it holds locally

vars == <<available, lent, exclusive, len, capacity, raw_len, mode,
          cache_block_size, bytes, views, mview, forgotten, ev, ret,
          freed, wr, iter, th>>

\* ------------------------------------------------------------- alignment
align_add(n) ==
    LET offset == n % Alignment
    IN  wadd(n, IF offset > 0 THEN Alignment - offset ELSE 0)

align_sub(n) ==
    LET factor == n \div Alignment
    IN  factor * Alignment

\* Mutant of fix_cache_block_size: a size that is not zero is kept as it is.
fix_cache_block_size_asis(cbs) ==
    IF cbs = 0 THEN Alignment ELSE cbs

fix_cache_block_size(cbs) ==
    IF cbs = 0 THEN Alignment ELSE align_add(cbs)

Max(a, b) == IF a >= b THEN a ELSE b
Min(a, b) == IF a <= b THEN a ELSE b

\* ----------------------------------------------------------- CachedBlock
CachedBlock_new(view) ==
    [ptr |-> view.ptr, off |-> view.off, len |-> view.len,
     writable |-> view.writable, refs |-> 0, dirty |-> FALSE]

\* Mutant of is_hit: only an exact range match is a hit.
is_hit_exact(block, off, n) ==
    block.off = off /\ block.len = n

is_hit(block, off, n) ==
    block.off <= off /\ wadd(block.off, block.len) >= wadd(off, n)

\* Mutant of is_overlapping: no two ranges ever overlap.
is_overlapping_never(block, off, n) == FALSE

is_overlapping(block, off, n) ==
    LET start == Max(block.off, off)
        end   == Min(block.off + block.len, off + n)
    IN  start < end

holds(block, ptr) == block.ptr = ptr

\* Mutant of view_ref: the counter is not bumped.
view_ref_block_noinc(block) == block

\* CachedBlock::view_ref: bump the counter, mint the handle.
view_ref_block(block) == [block EXCEPT !.refs = @ + 1]
view_ref(block, off, n) ==
    [base_ptr |-> block.ptr, off |-> off - block.off, len |-> n]
\* What the caller keeps of a handle: the cache reads only its base_ptr.
Handle(view) == [base_ptr |-> view.base_ptr]

\* Mutant of view_mut: the file offset is used as the offset in the block.
view_mut_abs(block, off, n) ==
    [base_ptr |-> block.ptr, off |-> off, len |-> n]

\* CachedBlock::view_mut: the handle; the caller has checked refs = 0.
view_mut(block, off, n) ==
    [base_ptr |-> block.ptr, off |-> off - block.off, len |-> n]

\* ------------------------------------------------------------ sequences
\* Mutant of remove: the element stays where it was.
RemoveAt_keep(s, i) == s

\* VecDeque::remove(index) / Vec::remove(index), indices from 1.
RemoveAt(s, i) == SubSeq(s, 1, i - 1) \o SubSeq(s, i + 1, Len(s))

\* Largest index whose element satisfies Test, 0 if none (iter().rev().find).
RFind(s, Test(_)) ==
    LET S == {i \in 1..Len(s) : Test(s[i])}
    IN  IF S = {} THEN 0 ELSE CHOOSE i \in S : \A k \in S : k <= i

\* Smallest index whose element satisfies Test, 0 if none (iter().find).
LFind(s, Test(_)) ==
    LET S == {i \in 1..Len(s) : Test(s[i])}
    IN  IF S = {} THEN 0 ELSE CHOOSE i \in S : \A k \in S : k >= i

\* A mapping-layer call on the mapping of a block: "map" (RawFile::view),
\* "flush" (RawView::flush) or "unmap" (Drop for RawView).
Call(e, block) == [e |-> e, ptr |-> block.ptr, off |-> block.off, len |-> block.len]
Unmaps(blocks) == [i \in 1..Len(blocks) |-> Call("unmap", blocks[i])]

\* Mutant of flush_if_dirty: it never flushes.
flush_if_dirty_never(block) == <<>>

\* CachedBlock::flush_if_dirty: the mapping-layer calls it makes.
flush_if_dirty(block) ==
    IF block.dirty THEN <<Call("flush", block)>> ELSE <<>>

\* ---------------------------------------------------------------- Cache
\* Cache::acquire_available: index of the block taken, 0 on a miss.
acquire_available(off, n) ==
    RFind(available, LAMBDA b: is_hit(b, off, n))

\* Mutant of add_available: the capacity check is left out.
add_available_unbounded(q, block) ==
    LET kept   == SelectSeq(q, LAMBDA b: ~is_overlapping(b, block.off, block.len))
        purged == SelectSeq(q, LAMBDA b: is_overlapping(b, block.off, block.len))
    IN  [available |-> Append(kept, block), len |-> Len(kept) + 1,
         ev |-> Unmaps(purged)]

\* Mutant of add_available: a full queue gives up its most recent block.
add_available_lifo(q, block) ==
    LET kept   == SelectSeq(q, LAMBDA b: ~is_overlapping(b, block.off, block.len))
        purged == SelectSeq(q, LAMBDA b: is_overlapping(b, block.off, block.len))
        n      == Len(kept)
    IN  IF n < capacity
        THEN [available |-> Append(kept, block), len |-> n + 1,
              ev |-> Unmaps(purged)]
        ELSE LET dropped == kept[n]
             IN  [available |-> Append(SubSeq(kept, 1, n - 1), block),
                  len       |-> n,
                  ev        |-> Unmaps(purged) \o flush_if_dirty(dropped)
                                \o <<Call("unmap", dropped)>>]

\* Cache::add_available on queue q: overlap purge, capacity check with
\* flush_if_dirty of the popped front, push_back, store of len.
add_available(q, block) ==
    LET kept    == SelectSeq(q, LAMBDA b: ~is_overlapping(b, block.off, block.len))
        purged  == SelectSeq(q, LAMBDA b: is_overlapping(b, block.off, block.len))
        n       == Len(kept)
    IN  IF n < capacity
        THEN [available |-> Append(kept, block),
              len       |-> n + 1,
              ev        |-> Unmaps(purged)]
        ELSE LET dropped == Head(kept)
             IN  [available |-> Append(Tail(kept), block),
                  len       |-> n,
                  ev        |-> Unmaps(purged)
                                \o flush_if_dirty(dropped)
                                \o <<Call("unmap", dropped)>>]

\* ------------------------------------------------------- mapping layer
SeqSet(s) == {s[i] : i \in 1..Len(s)}

Blocks(av, le, ex) ==
    SeqSet(av) \cup SeqSet(le) \cup (IF ex = None THEN {} ELSE {ex})

AllBlocks == Blocks(available, lent, exclusive)

\* Blocks a thread holds in a local between two lock sections: taken out of
\* available or lent, or freshly mapped, and not yet pushed anywhere.
InFlight == {th[t].block : t \in {u \in Threads : th[u].block # None}}

Mapped == {b.ptr : b \in AllBlocks \cup InFlight}

\* Mutant of fetch_impl: the end of the block is not clipped to the file.
fetch_impl_unclipped(writable, off, n) ==
    LET end1 == Max(align_add(off + n), cache_block_size)
        off1 == align_sub(off)
    IN  [off |-> off1, len |-> end1 - off1, writable |-> writable]

\* File::fetch_impl: the range asked of RawFile::view.
fetch_impl(writable, off, n) ==
    LET end1 == Max(align_add(wadd(off, n)), cache_block_size)
        off1 == align_sub(off)
        end2 == Min(end1, raw_len)
    IN  [off |-> off1, len |-> wsub(end2, off1), writable |-> writable]

\* File::fetch: every fetch on behalf of a shared view.
fetch(off, n) == fetch_impl(mode = "Writable", off, n)

\* RawFile::view: mmap rejects a zero length and fails when the address
\* space is used up; otherwise the mapping gets the lowest free base address
\* (base addresses are only ever compared for equality).
\* The offset is handed over as an off_t: one that does not fit, or a range
\* that runs past the largest off_t, is rejected too.
OffMax == (UsizeMax - 1) \div 2
CanMap(req) == req.len > 0 /\ req.off + req.len <= OffMax /\ Ptrs \ Mapped # {}
FreePtr == CHOOSE p \in Ptrs \ Mapped : \A q \in Ptrs \ Mapped : p <= q
RawView(req) ==
    [ptr |-> FreePtr, off |-> req.off, len |-> req.len, writable |-> req.writable]

\* ---------------------------------------------------------- operations
\* Mutant of or_fetch: a failed fetch throws the available blocks away.
or_fetch_err_poison(av, le, l) ==
    [res |-> "err", available |-> <<>>, lent |-> le, len |-> 0,
     ev |-> Unmaps(av), view |-> None]

\* Take::or_fetch when fetch returns Err: the error is passed on, the cache
\* is not touched.
or_fetch_err(av, le, l) ==
    [res |-> "err", available |-> av, lent |-> le, len |-> l,
     ev |-> <<>>, view |-> None]

\* Cache::take followed by Take::or_fetch with File::fetch: the outcomes.
take(off, n) ==
    LET i == acquire_available(off, n)
        j == RFind(lent, LAMBDA b: is_hit(b, off, n))
        req == fetch(off, n)
    IN  IF i > 0
        THEN {[res |-> "ok", available |-> RemoveAt(available, i),
               lent |-> Append(lent, view_ref_block(available[i])),
               len |-> len - 1, ev |-> <<>>,
               view |-> view_ref(available[i], off, n)]}
        ELSE IF j > 0
        THEN {[res |-> "ok", available |-> available,
               lent |-> [lent EXCEPT ![j] = view_ref_block(@)],
               len |-> len, ev |-> <<>>,
               view |-> view_ref(lent[j], off, n)]}
        ELSE {or_fetch_err(available, lent, len)}
             \cup
             (IF CanMap(req)
              THEN LET block == CachedBlock_new(RawView(req))
                   IN  {[res |-> "ok", available |-> available,
                         lent |-> Append(lent, view_ref_block(block)),
                         len |-> len, ev |-> <<Call("map", block)>>,
                         view |-> view_ref(block, off, n)]}
              ELSE {})

\* Mutant of restore_ref: the block is freed whatever its counter says.
restore_ref_eager(av, le, l, v) ==
    LET j == LFind(le, LAMBDA b: holds(b, v.base_ptr))
    IN  IF j = 0
        THEN [available |-> av, lent |-> le, len |-> l, ev |-> <<>>, back |-> {}]
        ELSE LET block == [le[j] EXCEPT !.refs = @ - 1]
                 r == add_available(av, block)
             IN  [available |-> r.available, lent |-> RemoveAt(le, j),
                  len |-> r.len, ev |-> r.ev, back |-> {block.ptr}]

\* Cache::restore_ref applied to queue av and vector le for handle v.
restore_ref(av, le, l, v) ==
    LET j == LFind(le, LAMBDA b: holds(b, v.base_ptr))
    IN  IF j = 0
        THEN [available |-> av, lent |-> le, len |-> l, ev |-> <<>>, back |-> {}]
        ELSE IF le[j].refs = 1
        THEN LET block == [le[j] EXCEPT !.refs = @ - 1]
                 r == add_available(av, block)
             IN  [available |-> r.available, lent |-> RemoveAt(le, j),
                  len |-> r.len, ev |-> r.ev, back |-> {block.ptr}]
        ELSE [available |-> av, lent |-> [le EXCEPT ![j].refs = @ - 1],
              len |-> l, ev |-> <<>>, back |-> {}]

\* Dropping what the exclusive slot held when it is overwritten.
DropOld == IF exclusive = None THEN <<>> ELSE <<Call("unmap", exclusive)>>

\* Mutant of Cache::lent: it reads the counter of available instead.
lent_len_available == len

\* Mutant of Cache::lent: it counts the handles the caller holds.
lent_len_held == BagCardinality(views)

\* Cache::lent(): the number of lent blocks.
lent_len == Len(lent)

\* Cache::take_mut followed by TakeMut::or_fetch with File::fetch_impl.
take_mut(off, n) ==
    LET i == acquire_available(off, n)
        req == fetch_impl(mode = "Writable", off, n)
    IN  IF ~(lent_len = 0)
        THEN {[res |-> "panic", available |-> available, exclusive |-> exclusive,
               len |-> len, ev |-> <<>>, view |-> None]}
        ELSE IF i > 0
        THEN IF available[i].refs # 0
             THEN {[res |-> "panic", available |-> RemoveAt(available, i),
                    exclusive |-> exclusive, len |-> len - 1,
                    ev |-> <<Call("unmap", available[i])>>,
                    view |-> None]}
             ELSE {[res |-> "ok", available |-> RemoveAt(available, i),
                    exclusive |-> available[i], len |-> len - 1, ev |-> DropOld,
                    view |-> view_mut(available[i], off, n)]}
        ELSE {[res |-> "err", available |-> available, exclusive |-> exclusive,
               len |-> len, ev |-> <<>>, view |-> None]}
             \cup
             (IF CanMap(req)
              THEN LET block == CachedBlock_new(RawView(req))
                   IN  {[res |-> "ok", available |-> available,
                         exclusive |-> block, len |-> len,
                         ev |-> <<Call("map", block)>> \o DropOld,
                         view |-> view_mut(block, off, n)]}
              ELSE {})

\* Mutant of restore_mut: the block is not marked dirty.
restore_mut_clean(av, ex) ==
    LET r == add_available(av, ex)
    IN  [available |-> r.available, len |-> r.len, ev |-> r.ev, back |-> {ex.ptr}]

\* Cache::restore_mut applied to queue av and slot ex (ex is not None).
restore_mut(av, ex) ==
    LET block == [ex EXCEPT !.dirty = TRUE]
        r == add_available(av, block)
    IN  [available |-> r.available, len |-> r.len, ev |-> r.ev, back |-> {block.ptr}]

\* ----------------------------------------------------------- handles
\* Number of handles of a kind on base pointer p that were created and
\* whose Drop has not run (held by the caller, or forgotten).
Held(p) ==
    LET S == {v \in BagToSet(views) : v.base_ptr = p}
        RECURSIVE Sum(_)
        Sum(T) == IF T = {} THEN 0
                  ELSE LET v == CHOOSE x \in T : TRUE
                       IN  CopiesIn(v, views) + Sum(T \ {v})
    IN  Sum(S)
OutstandingRefs(p) == Held(p) + CopiesIn([kind |-> "ref", ptr |-> p], forgotten)
\* The forgotten handles of kind k / those whose base pointer is in ps.
OfKind(bag, k) == [h \in {x \in BagToSet(bag) : x.kind = k} |-> bag[h]]
Naming(bag, ps) == [h \in {x \in BagToSet(bag) : x.ptr \in ps} |-> bag[h]]
ForgottenRefs == BagCardinality(OfKind(forgotten, "ref"))
OutstandingMuts(p) ==
    (IF mview # None /\ mview.base_ptr = p THEN 1 ELSE 0)
    + CopiesIn([kind |-> "mut", ptr |-> p], forgotten)

\* The block a handle reads and writes through.
BlockAt(bs, p) == CHOOSE b \in bs : b.ptr = p
\* Bytes seen through handle v of block b.
Slice(mem, b, v) == [i \in 1..v.len |-> mem[b.off + v.off + i - 1]]
\* Memory after copying buf through handle v of block b.
Store(mem, b, v, buf) ==
    [a \in DOMAIN mem |->
        IF a >= b.off + v.off /\ a < b.off + v.off + Len(buf)
        THEN buf[a - (b.off + v.off) + 1] ELSE mem[a]]

\* Pointers unmapped by a list of mapping-layer calls.
UnmappedBy(es) == {es[i].ptr : i \in {j \in 1..Len(es) : es[j].e = "unmap"}}

\* History of frees: q without the pointers in gone, then those in back.
FreedNext(q, gone, back) ==
    LET kept == SelectSeq(q, LAMBDA p: p \notin gone /\ p \notin back)
    IN  IF back = {} THEN kept ELSE Append(kept, CHOOSE p \in back : TRUE)
PtrsOf(s) == {s[i].ptr : i \in 1..Len(s)}
\* Pointers that left queue av when it became queue av2.
Left(av, av2) == PtrsOf(av) \ PtrsOf(av2)

\* ------------------------------------------------------------------ Init
InitBytes(m, l) ==
    [i \in 0..(MaxFileLen - 1) |->
        IF m = "Readonly" /\ i < l THEN (i + 1) % (MaxByte + 1) ELSE 0]

\* The state after File::open_writable / File::open_readonly for a file
\* whose length is drawn from lens, but for the bytes of the file.
OpenCache(lens) ==
    /\ available = <<>>
    /\ lent = <<>>
    /\ exclusive = None
    /\ len = 0
    /\ capacity \in 1..MaxCapacity
    /\ mode \in {"Writable", "Readonly"}
    /\ \E l \in lens :
          raw_len = IF mode = "Writable" THEN align_add(l) ELSE l
    /\ \E cbs \in {0, Alignment + 1} : cache_block_size = fix_cache_block_size(cbs)
    /\ views = EmptyBag
    /\ mview = None
    /\ forgotten = EmptyBag
    /\ ev = <<>>
    /\ ret = [op |-> "open", res |-> "ok", view |-> None]
    /\ freed = <<>>
    /\ wr = None
    /\ iter = None
    /\ th = IdleThreads

\* The same with the bytes of the file: a fixed pattern in a file opened
\* read-only, zeros in a file opened writable.
Open(lens) ==
    /\ OpenCache(lens)
    /\ bytes = InitBytes(mode, raw_len)

\* Any contents of the file (bytes past its end read as zero).
Contents(l) ==
    {f \in [0..(MaxFileLen - 1) -> Bytes] : \A i \in l..(MaxFileLen - 1) : f[i] = 0}

Init == Open({1, MaxFileLen - 1, MaxFileLen})

\* Files of at most MaxPages - 1 pages, for the runs that forget handles.
InitForget == Open({1, MaxFileLen - Alignment})

\* Writable files of MaxPages - 1 pages, for the runs that write and read.
InitIO == Open({MaxFileLen - Alignment}) /\ mode = "Writable"

\* Files with any contents, for the runs that iterate over them.
InitIter == OpenCache({1, MaxFileLen - 1, MaxFileLen}) /\ bytes \in Contents(raw_len)

\* File::check_file_bounds: `off + len` is a usize sum.  A build with
\* overflow checks panics when it overflows; a build without them compares
\* the wrapped sum with the file length.
check_file_bounds(off, n) ==
    (IF Overflows(off, n) THEN {"panic"} ELSE {})
    \cup {IF wadd(off, n) > raw_len THEN "panic" ELSE "ok"}

\* ------------------------------------------------------------ File::view
View(off, n) ==
    /\ mview = None
    /\ BagCardinality(views) + ForgottenRefs < MaxViews
    /\ \E c \in check_file_bounds(off, n) :
       IF c = "panic"
       THEN /\ ret' = [op |-> "view", res |-> "panic", view |-> None]
            /\ ev' = <<>>
            /\ UNCHANGED <<available, lent, len, views, freed>>
       ELSE \E o \in take(off, n) :
            /\ available' = o.available
            /\ lent' = o.lent
            /\ len' = o.len
            /\ ev' = o.ev
            /\ views' = IF o.res = "ok" THEN views (+) SetToBag({Handle(o.view)})
                                         ELSE views
            /\ freed' = FreedNext(freed, Left(available, o.available), {})
            /\ ret' = [op |-> "view", res |-> o.res, view |-> o.view]
    /\ UNCHANGED <<th, iter, exclusive, capacity, raw_len, mode, cache_block_size, bytes,
                   mview, forgotten, wr>>

\* ------------------------------------------------- Drop for ViewRef
DropViewRef(v) ==
    /\ BagIn(v, views)
    /\ LET r == restore_ref(available, lent, len, v)
       IN  /\ available' = r.available
           /\ lent' = r.lent
           /\ len' = r.len
           /\ ev' = r.ev
           /\ freed' = FreedNext(freed, UnmappedBy(r.ev), r.back)
    /\ views' = views (-) SetToBag({v})
    /\ ret' = [op |-> "drop_ref", res |-> "ok", view |-> None]
    /\ UNCHANGED <<th, iter, exclusive, capacity, raw_len, mode, cache_block_size, bytes,
                   mview, forgotten, wr>>

\* mem::forget of a ViewRef: its Drop never runs.
ForgetViewRef(v) ==
    /\ BagIn(v, views)
    /\ views' = views (-) SetToBag({v})
    /\ forgotten' = forgotten (+) SetToBag({[kind |-> "ref", ptr |-> v.base_ptr]})
    /\ ev' = <<>>
    /\ ret' = [op |-> "forget_ref", res |-> "ok", view |-> None]
    /\ UNCHANGED <<th, iter, available, lent, exclusive, len, capacity, raw_len, mode,
                   cache_block_size, bytes, mview, freed, wr>>

\* -------------------------------------------------------- File::view_mut
ViewMut(off, n) ==
    /\ mview = None
    /\ views = EmptyBag
    /\ \E c \in (IF mode # "Writable" THEN {"panic"} ELSE check_file_bounds(off, n)) :
       IF c = "panic"
       THEN /\ ret' = [op |-> "view_mut", res |-> "panic", view |-> None]
            /\ ev' = <<>>
            /\ UNCHANGED <<available, exclusive, len, mview, forgotten, freed>>
       ELSE \E o \in take_mut(off, n) :
            /\ available' = o.available
            /\ exclusive' = o.exclusive
            /\ len' = o.len
            /\ ev' = o.ev
            /\ mview' = IF o.res = "ok" THEN Handle(o.view) ELSE None
            /\ forgotten' = Naming(forgotten, Mapped \ UnmappedBy(o.ev))
            /\ freed' = FreedNext(freed, Left(available, o.available), {})
            /\ ret' = [op |-> "view_mut", res |-> o.res, view |-> o.view]
    /\ UNCHANGED <<th, iter, lent, capacity, raw_len, mode, cache_block_size, bytes, views, wr>>

\* ------------------------------------------------- Drop for ViewMut
DropViewMut ==
    /\ mview # None
    /\ IF exclusive = None
       THEN /\ ret' = [op |-> "drop_mut", res |-> "panic", view |-> None]
            /\ ev' = <<>>
            /\ UNCHANGED <<available, exclusive, len, freed>>
       ELSE LET r == restore_mut(available, exclusive)
            IN  /\ available' = r.available
                /\ exclusive' = None
                /\ len' = r.len
                /\ ev' = r.ev
                /\ freed' = FreedNext(freed, UnmappedBy(r.ev), r.back)
                /\ ret' = [op |-> "drop_mut", res |-> "ok", view |-> None]
    /\ mview' = None
    /\ UNCHANGED <<th, iter, lent, capacity, raw_len, mode, cache_block_size, bytes, views,
                   forgotten, wr>>

\* mem::forget of a ViewMut: its Drop never runs.
ForgetViewMut ==
    /\ mview # None
    /\ mview' = None
    /\ forgotten' = forgotten (+) SetToBag({[kind |-> "mut", ptr |-> mview.base_ptr]})
    /\ ev' = <<>>
    /\ ret' = [op |-> "forget_mut", res |-> "ok", view |-> None]
    /\ UNCHANGED <<th, iter, available, lent, exclusive, len, capacity, raw_len, mode,
                   cache_block_size, bytes, views, freed, wr>>

\* ------------------------------------------------------ FileMut::write_at
\* view_mut(off, buf.len())?.as_mut_slice().copy_from_slice(buf), then the
\* Drop of the temporary ViewMut.
WriteAt(off, buf) ==
    /\ mview = None
    /\ views = EmptyBag
    /\ \E c \in (IF mode # "Writable" THEN {"panic"}
                ELSE check_file_bounds(off, Len(buf))) :
       IF c = "panic"
       THEN /\ ret' = [op |-> "write_at", res |-> "panic", view |-> None]
            /\ ev' = <<>>
            /\ UNCHANGED <<available, exclusive, len, bytes, forgotten, freed, wr>>
       ELSE \E o \in take_mut(off, Len(buf)) :
            IF o.res # "ok"
            THEN /\ available' = o.available
                 /\ exclusive' = o.exclusive
                 /\ len' = o.len
                 /\ ev' = o.ev
                 /\ freed' = FreedNext(freed, Left(available, o.available), {})
                 /\ ret' = [op |-> "write_at", res |-> o.res, view |-> None]
                 /\ UNCHANGED <<bytes, forgotten, wr>>
            ELSE LET r == restore_mut(o.available, o.exclusive)
                 IN  /\ available' = r.available
                     /\ exclusive' = None
                     /\ len' = r.len
                     /\ ev' = o.ev \o r.ev
                     /\ forgotten' = Naming(forgotten, Mapped \ UnmappedBy(o.ev))
                     /\ freed' = FreedNext(
                                    FreedNext(freed, Left(available, o.available), {}),
                                    UnmappedBy(r.ev), r.back)
                     /\ IF o.exclusive.writable
                        THEN /\ bytes' = Store(bytes, o.exclusive, o.view, buf)
                             /\ ret' = [op |-> "write_at", res |-> "ok", view |-> None]
                        ELSE /\ bytes' = bytes
                             /\ ret' = [op |-> "write_at", res |-> "segv",
                                        view |-> None]
                     /\ wr' = [off |-> off, buf |-> buf]
    /\ UNCHANGED <<th, iter, lent, capacity, raw_len, mode, cache_block_size, views, mview>>

\* ------------------------------------------------------- FileMut::read_at
\* buf.copy_from_slice(view(off, buf.len())?.as_slice()), then the Drop of
\* the temporary ViewRef.
ReadAt(off, n) ==
    /\ mview = None
    /\ BagCardinality(views) + ForgottenRefs < MaxViews
    /\ \E c \in check_file_bounds(off, n) :
       IF c = "panic"
       THEN /\ ret' = [op |-> "read_at", res |-> "panic", view |-> None]
            /\ ev' = <<>>
            /\ UNCHANGED <<available, lent, len, freed>>
       ELSE \E o \in take(off, n) :
            IF o.res # "ok"
            THEN /\ ret' = [op |-> "read_at", res |-> o.res, view |-> None]
                 /\ ev' = o.ev
                 /\ UNCHANGED <<available, lent, len, freed>>
            ELSE LET blk == BlockAt(SeqSet(o.lent), o.view.base_ptr)
                     r == restore_ref(o.available, o.lent, o.len, o.view)
                 IN  /\ available' = r.available
                     /\ lent' = r.lent
                     /\ len' = r.len
                     /\ ev' = o.ev \o r.ev
                     /\ freed' = FreedNext(
                                    FreedNext(freed, Left(available, o.available), {}),
                                    UnmappedBy(r.ev), r.back)
                     /\ ret' = [op |-> "read_at", res |-> "ok", view |-> None,
                                off |-> off, buf |-> Slice(bytes, blk, o.view)]
    /\ UNCHANGED <<th, iter, exclusive, capacity, raw_len, mode, cache_block_size, bytes,
                   views, mview, forgotten, wr>>

\* --------------------------------------------------------- constructors
\* No File has been opened yet.
InitClosed ==
    /\ available = <<>>
    /\ lent = <<>>
    /\ exclusive = None
    /\ len = 0
    /\ capacity = 0
    /\ mode = "Closed"
    /\ raw_len = 0
    /\ cache_block_size = 0
    /\ bytes = InitBytes("Closed", 0)
    /\ views = EmptyBag
    /\ mview = None
    /\ forgotten = EmptyBag
    /\ ev = <<>>
    /\ ret = [op |-> "none", res |-> "ok", view |-> None]
    /\ freed = <<>>
    /\ wr = None
    /\ iter = None
    /\ th = IdleThreads

\* Mutant of the zero-length check: every length is accepted.
check_len_any(l) == "ok"

\* The check `len == 0` of File::open_writable and File::resize.
check_len(l) == IF l = 0 THEN "InvalidInput" ELSE "ok"

\* What the call reports: its name, its arguments, its result.
Opened(op, res, l, cap, cbs) ==
    [op |-> op, res |-> res, view |-> None,
     len |-> l, capacity |-> cap, cache_block_size |-> cbs]

\* File::open_writable(path, l, cap, cbs), called as op.  The file is made
\* or cut to the aligned length; opening, truncating or locking can fail.
OpenWritable(op, l, cap, cbs) ==
    /\ mode = "Closed"
    /\ \/ /\ check_len(l) # "ok"
          /\ ret' = Opened(op, check_len(l), l, cap, cbs)
          /\ UNCHANGED <<capacity, mode, raw_len, cache_block_size, bytes>>
       \/ /\ check_len(l) = "ok"
          /\ ret' = Opened(op, "err", l, cap, cbs)
          /\ UNCHANGED <<capacity, mode, raw_len, cache_block_size, bytes>>
       \/ /\ check_len(l) = "ok"
          /\ ret' = Opened(op, "ok", l, cap, cbs)
          /\ capacity' = cap
          /\ mode' = "Writable"
          /\ raw_len' = align_add(l)
          /\ cache_block_size' = fix_cache_block_size(cbs)
          /\ bytes' = InitBytes("Writable", align_add(l))
    /\ ev' = <<>>
    /\ UNCHANGED <<th, iter, available, lent, exclusive, len, views, mview, forgotten,
                   freed, wr>>

\* File::open_readonly(path, cap, cbs), called as op, on a file of l bytes.
OpenReadonly(op, l, cap, cbs) ==
    /\ mode = "Closed"
    /\ \/ /\ l = 0
          /\ ret' = Opened(op, "InvalidData", l, cap, cbs)
          /\ UNCHANGED <<capacity, mode, raw_len, cache_block_size, bytes>>
       \/ /\ l # 0
          /\ ret' = Opened(op, "err", l, cap, cbs)
          /\ UNCHANGED <<capacity, mode, raw_len, cache_block_size, bytes>>
       \/ /\ l # 0
          /\ ret' = Opened(op, "ok", l, cap, cbs)
          /\ capacity' = cap
          /\ mode' = "Readonly"
          /\ raw_len' = l
          /\ cache_block_size' = fix_cache_block_size(cbs)
          /\ bytes' = InitBytes("Readonly", l)
    /\ ev' = <<>>
    /\ UNCHANGED <<th, iter, available, lent, exclusive, len, views, mview, forgotten,
                   freed, wr>>

\* FileMut::new, FileMut::with_cache, FileRef::new, FileRef::with_cache.
FileMut_new(l) ==
    OpenWritable("FileMut::new", l, DEFAULT_CACHE_CAPACITY, DEFAULT_CACHE_BLOCK_SIZE)
FileMut_with_cache(l, cache_capacity, cache_block_size_) ==
    OpenWritable("FileMut::with_cache", l, cache_capacity, cache_block_size_)
FileRef_with_cache(l, cache_capacity, cache_block_size_) ==
    OpenReadonly("FileRef::with_cache", l, cache_capacity, cache_block_size_)
\* FileRef::new hands its two defaults to with_cache in this order.
FileRef_new(l) ==
    OpenReadonly("FileRef::new", l, DEFAULT_CACHE_BLOCK_SIZE, DEFAULT_CACHE_CAPACITY)

\* Mutant of RawFile::resize: the file is emptied before it gets its length.
truncate_wipe(new_len) ==
    [i \in 0..(MaxFileLen - 1) |-> 0]

\* RawFile::resize: ftruncate; bytes cut off are gone, new bytes read zero.
truncate(new_len) ==
    [i \in 0..(MaxFileLen - 1) |-> IF i < new_len THEN bytes[i] ELSE 0]

\* `align_add(new_len)` as File::resize meets it: the value returned, and a
\* panic where the sum overflows in a build with overflow checks.
align_add_checked(n) ==
    LET offset == n % Alignment
        pad == IF offset > 0 THEN Alignment - offset ELSE 0
    IN  {[res |-> "ok", val |-> align_add(n)]}
        \cup (IF Overflows(n, pad) THEN {[res |-> "panic", val |-> 0]} ELSE {})

\* ----------------------------------------------------------- File::resize
\* ftruncate succeeds only up to the largest file the model holds (EFBIG /
\* EINVAL beyond it), and may fail for any length.
Resize(new_len) ==
    /\ mode # "Closed"
    /\ mview = None
    /\ views = EmptyBag
    /\ iter = None
    /\ IF mode # "Writable"
       THEN /\ ret' = [op |-> "resize", res |-> "panic", view |-> None,
                       len |-> new_len]
            /\ UNCHANGED <<raw_len, bytes, wr>>
       ELSE IF check_len(new_len) # "ok"
       THEN /\ ret' = [op |-> "resize", res |-> check_len(new_len), view |-> None,
                       len |-> new_len]
            /\ UNCHANGED <<raw_len, bytes, wr>>
       ELSE \E a \in align_add_checked(new_len) :
            IF a.res = "panic"
            THEN /\ ret' = [op |-> "resize", res |-> "panic", view |-> None,
                            len |-> new_len]
                 /\ UNCHANGED <<raw_len, bytes, wr>>
            ELSE IF raw_len = a.val
            THEN /\ ret' = [op |-> "resize", res |-> "ok", view |-> None,
                            len |-> new_len]
                 /\ UNCHANGED <<raw_len, bytes, wr>>
            ELSE \/ /\ ret' = [op |-> "resize", res |-> "err", view |-> None,
                               len |-> new_len]
                    /\ UNCHANGED <<raw_len, bytes, wr>>
                 \/ /\ a.val <= MaxFileLen
                    /\ ret' = [op |-> "resize", res |-> "ok", view |-> None,
                               len |-> new_len]
                    /\ raw_len' = a.val
                    /\ bytes' = truncate(a.val)
                    /\ wr' = IF wr = None THEN None
                             ELSE IF wr.off + Len(wr.buf) <= a.val THEN wr
                             ELSE None
    /\ ev' = <<>>
    /\ UNCHANGED <<th, iter, available, lent, exclusive, len, capacity, mode,
                   cache_block_size, views, mview, forgotten, freed>>

\* ------------------------------------------------------- Iter::from_file
IterNew ==
    /\ iter = None
    /\ mview = None
    /\ BagCardinality(views) + ForgottenRefs < MaxViews
    /\ LET block_size == Min(raw_len, cache_block_size)
       IN  \E o \in take(0, block_size) :
            /\ available' = o.available
            /\ lent' = o.lent
            /\ len' = o.len
            /\ ev' = o.ev
            /\ views' = IF o.res = "ok" THEN views (+) SetToBag({Handle(o.view)})
                                         ELSE views
            /\ iter' = IF o.res = "ok" THEN [view |-> o.view, cur |-> 0, cum |-> 0]
                                        ELSE None
            /\ freed' = FreedNext(freed, Left(available, o.available), {})
            /\ ret' = [op |-> "iter", res |-> o.res, view |-> o.view]
    /\ UNCHANGED <<th, exclusive, capacity, raw_len, mode, cache_block_size, bytes,
                   mview, forgotten, wr>>

\* Mutant of the block size of Iter::next: a whole cache block every time.
next_block_size_whole(cum) == cache_block_size

\* Iter::next: the length of the view asked for when the current one is
\* used up.
next_block_size(cum) == Min(raw_len - cum, cache_block_size)

\* Iter::next: the item read at the cursor and the cursors moved on.
Yield(le, view, cur) ==
    [item |-> Slice(bytes, BlockAt(SeqSet(le), view.base_ptr), view)[cur + 1],
     iter |-> [view |-> view, cur |-> cur + 1, cum |-> iter.cum + 1]]

\* ------------------------------------------------------------- Iter::next
IterNext ==
    /\ iter # None
    /\ IF iter.cum = raw_len
       THEN /\ ret' = [op |-> "next", res |-> "none", view |-> None]
            /\ ev' = <<>>
            /\ UNCHANGED <<available, lent, len, views, iter, freed>>
       ELSE IF iter.cur = iter.view.len
       THEN LET block_size == next_block_size(iter.cum)
            IN  IF iter.cur + block_size > raw_len
                THEN /\ ret' = [op |-> "next", res |-> "panic", view |-> None]
                     /\ ev' = <<>>
                     /\ UNCHANGED <<available, lent, len, views, iter, freed>>
                ELSE \E o \in take(iter.cur, block_size) :
                     IF o.res # "ok"
                     THEN /\ ret' = [op |-> "next", res |-> "io_panic", view |-> None]
                          /\ ev' = o.ev
                          /\ UNCHANGED <<available, lent, len, views, iter, freed>>
                     ELSE LET r == restore_ref(o.available, o.lent, o.len, iter.view)
                              y == Yield(o.lent, o.view, 0)
                          IN  /\ available' = r.available
                              /\ lent' = r.lent
                              /\ len' = r.len
                              /\ ev' = o.ev \o r.ev
                              /\ views' = (views (+) SetToBag({Handle(o.view)}))
                                             (-) SetToBag({Handle(iter.view)})
                              /\ iter' = y.iter
                              /\ freed' = FreedNext(
                                    FreedNext(freed, Left(available, o.available), {}),
                                    UnmappedBy(r.ev), r.back)
                              /\ ret' = [op |-> "next", res |-> "some",
                                         view |-> None, item |-> y.item]
       ELSE LET y == Yield(lent, iter.view, iter.cur)
            IN  /\ iter' = y.iter
                /\ ev' = <<>>
                /\ ret' = [op |-> "next", res |-> "some", view |-> None,
                           item |-> y.item]
                /\ UNCHANGED <<available, lent, len, views, freed>>
    /\ UNCHANGED <<th, exclusive, capacity, raw_len, mode, cache_block_size, bytes,
                   mview, forgotten, wr>>

\* ----------------------------------------------------------- Drop for Iter
\* Dropping the iterator drops the ViewRef it holds.
IterDrop ==
    /\ iter # None
    /\ LET r == restore_ref(available, lent, len, iter.view)
       IN  /\ available' = r.available
           /\ lent' = r.lent
           /\ len' = r.len
           /\ ev' = r.ev
           /\ freed' = FreedNext(freed, UnmappedBy(r.ev), r.back)
    /\ views' = views (-) SetToBag({Handle(iter.view)})
    /\ iter' = None
    /\ ret' = [op |-> "drop_iter", res |-> "ok", view |-> None]
    /\ UNCHANGED <<th, exclusive, capacity, raw_len, mode, cache_block_size, bytes,
                   mview, forgotten, wr>>

\* ---------------------------------------------------- File::copy_within
\* Cache::take followed by Take::or_fetch with File::fetch, on a cache whose
\* available queue, lent vector and counter are av, le and l: the second
\* take of copy_within runs on what the first one left.
take_on(av, le, l, off, n) ==
    LET i == RFind(av, LAMBDA b: is_hit(b, off, n))
        j == RFind(le, LAMBDA b: is_hit(b, off, n))
        req == fetch(off, n)
        free == Ptrs \ {b.ptr : b \in Blocks(av, le, exclusive)}
    IN  IF i > 0
        THEN {[res |-> "ok", available |-> RemoveAt(av, i),
               lent |-> Append(le, view_ref_block(av[i])),
               len |-> l - 1, ev |-> <<>>,
               view |-> view_ref(av[i], off, n)]}
        ELSE IF j > 0
        THEN {[res |-> "ok", available |-> av,
               lent |-> [le EXCEPT ![j] = view_ref_block(@)],
               len |-> l, ev |-> <<>>,
               view |-> view_ref(le[j], off, n)]}
        ELSE {or_fetch_err(av, le, l)}
             \cup
             (IF req.len > 0 /\ req.off + req.len <= OffMax /\ free # {}
              THEN LET ptr == CHOOSE p \in free : \A q \in free : p <= q
                       block == CachedBlock_new(
                                   [ptr |-> ptr, off |-> req.off, len |-> req.len,
                                    writable |-> req.writable])
                   IN  {[res |-> "ok", available |-> av,
                         lent |-> Append(le, view_ref_block(block)),
                         len |-> l, ev |-> <<Call("map", block)>>,
                         view |-> view_ref(block, off, n)]}
              ELSE {})

\* Mutant of the checks of copy_within: the mode is not looked at.
copy_within_checks_nomode(src, dst, count) ==
    (IF Overflows(src, count) THEN {"attempt to add with overflow"} ELSE {})
    \cup
    (IF wadd(src, count) > raw_len
     THEN {"src out of bounds"}
     ELSE (IF Overflows(dst, count) THEN {"attempt to add with overflow"}
           ELSE {})
          \cup
          {IF wadd(dst, count) > raw_len THEN "dst out of bounds" ELSE "ok"})

\* The three checks at the top of File::copy_within, in their order: the
\* panic message, or "ok".  The sums are usize sums as in check_file_bounds.
copy_within_checks(src, dst, count) ==
    IF mode # "Writable"
    THEN {"underlying file was opened as read-only"}
    ELSE (IF Overflows(src, count) THEN {"attempt to add with overflow"} ELSE {})
         \cup
         (IF wadd(src, count) > raw_len
          THEN {"src out of bounds"}
          ELSE (IF Overflows(dst, count) THEN {"attempt to add with overflow"}
                ELSE {})
               \cup
               {IF wadd(dst, count) > raw_len THEN "dst out of bounds" ELSE "ok"})

\* memmove: the bytes at [da, da + c) become what was at [sa, sa + c).
Memmove(mem, sa, da, c) ==
    [a \in DOMAIN mem |->
        IF a >= da /\ a < da + c THEN mem[sa + (a - da)] ELSE mem[a]]

\* A copy that moves the bytes one by one from the lowest address up, and
\* one that moves them from the highest address down.
RECURSIVE Ascending(_, _, _, _, _)
Ascending(mem, sa, da, c, k) ==
    IF k = c THEN mem
    ELSE Ascending([mem EXCEPT ![da + k] = mem[sa + k]], sa, da, c, k + 1)
RECURSIVE Descending(_, _, _, _)
Descending(mem, sa, da, c) ==
    IF c = 0 THEN mem
    ELSE Descending([mem EXCEPT ![da + c - 1] = mem[sa + c - 1]], sa, da, c - 1)

\* The test `src >= dst && src < dst + count || dst >= src && dst < src + count`.
ranges_overlap(src, dst, count) ==
    (src >= dst /\ src < dst + count) \/ (dst >= src /\ dst < src + count)

\* ptr::copy / ptr::copy_nonoverlapping from src_view.as_ptr() to
\* dst_view.as_ptr(): the file's bytes afterwards.  Within one mapping the
\* pointers overlap exactly when the file ranges do, and ptr::copy picks
\* the direction that preserves the source.  Two mappings lie at unrelated
\* addresses: when their file ranges overlap, ptr::copy sees pointers that
\* do not overlap and may move the bytes in either direction over memory
\* the two mappings share.
ptr_copy(mem, sv, sb, dv, db, src, dst, count) ==
    LET sa == sb.off + sv.off
        da == db.off + dv.off
    IN  IF sv.base_ptr # dv.base_ptr /\ ranges_overlap(src, dst, count)
        THEN {Ascending(mem, sa, da, count, 0), Descending(mem, sa, da, count)}
        ELSE {Memmove(mem, sa, da, count)}

\* A view that ends inside the block it names.
InBlock(b, v) == v.off + v.len <= b.len

\* What copy_within reports: its arguments, its result, the base pointers
\* of the two views it took.
Copied(res, msg, src, dst, count, sp, dp) ==
    [op |-> "copy_within", res |-> res, view |-> None, msg |-> msg,
     src |-> src, dst |-> dst, count |-> count, src_ptr |-> sp, dst_ptr |-> dp]

CopyWithin(src, dst, count) ==
    /\ mode # "Closed"
    /\ mview = None
    /\ views = EmptyBag
    /\ iter = None
    /\ \E c \in copy_within_checks(src, dst, count) :
       IF c # "ok"
       THEN /\ ret' = Copied("panic", c, src, dst, count, 0, 0)
            /\ ev' = <<>>
            /\ UNCHANGED <<available, lent, len, bytes, freed, wr>>
       ELSE IF count = 0
       THEN /\ ret' = Copied("ok", "", src, dst, count, 0, 0)
            /\ ev' = <<>>
            /\ UNCHANGED <<available, lent, len, bytes, freed, wr>>
       ELSE \E o1 \in take(src, count) :
            IF o1.res # "ok"
            THEN /\ ret' = Copied("err", "", src, dst, count, 0, 0)
                 /\ ev' = o1.ev
                 /\ UNCHANGED <<available, lent, len, bytes, freed, wr>>
            ELSE \E o2 \in take_on(o1.available, o1.lent, o1.len, dst, count) :
                 IF o2.res # "ok"
                 THEN LET r == restore_ref(o1.available, o1.lent, o1.len, o1.view)
                      IN  /\ available' = r.available
                          /\ lent' = r.lent
                          /\ len' = r.len
                          /\ ev' = o1.ev \o r.ev
                          /\ freed' = FreedNext(
                                FreedNext(freed, Left(available, o1.available), {}),
                                UnmappedBy(r.ev), r.back)
                          /\ ret' = Copied("err", "", src, dst, count,
                                            o1.view.base_ptr, 0)
                          /\ UNCHANGED <<bytes, wr>>
                 ELSE LET sb == BlockAt(SeqSet(o2.lent), o1.view.base_ptr)
                          db == BlockAt(SeqSet(o2.lent), o2.view.base_ptr)
                          r1 == restore_ref(o2.available, o2.lent, o2.len, o2.view)
                          r2 == restore_ref(r1.available, r1.lent, r1.len, o1.view)
                      IN  /\ available' = r2.available
                          /\ lent' = r2.lent
                          /\ len' = r2.len
                          /\ ev' = o1.ev \o o2.ev \o r1.ev \o r2.ev
                          /\ freed' = FreedNext(
                                FreedNext(
                                  FreedNext(freed, Left(available, o2.available), {}),
                                  UnmappedBy(r1.ev), r1.back),
                                UnmappedBy(r2.ev), r2.back)
                          /\ wr' = None
                          /\ IF ~InBlock(sb, o1.view) \/ ~InBlock(db, o2.view)
                             THEN /\ bytes' = bytes
                                  /\ ret' = Copied("wild", "", src, dst, count,
                                                    o1.view.base_ptr, o2.view.base_ptr)
                             ELSE IF ~db.writable
                             THEN /\ bytes' = bytes
                                  /\ ret' = Copied("segv", "", src, dst, count,
                                                    o1.view.base_ptr, o2.view.base_ptr)
                             ELSE /\ bytes' \in ptr_copy(bytes, o1.view, sb, o2.view,
                                                         db, src, dst, count)
                                  /\ ret' = Copied("ok", "", src, dst, count,
                                                    o1.view.base_ptr, o2.view.base_ptr)
    /\ UNCHANGED <<th, exclusive, capacity, raw_len, mode, cache_block_size, views,
                   mview, forgotten, iter>>

Next ==
    \/ \E off \in 0..MaxFileLen, n \in 0..MaxFileLen : View(off, n)
    \/ \E v \in BagToSet(views) : DropViewRef(v)
    \/ \E off \in 0..MaxFileLen, n \in 0..MaxFileLen : ViewMut(off, n)
    \/ DropViewMut

Spec == Init /\ [][Next]_vars

\* The same operations, and handles passed to mem::forget.
NextForget ==
    \/ Next
    \/ \E v \in BagToSet(views) : ForgetViewRef(v)
    \/ ForgetViewMut

SpecForget == InitForget /\ [][NextForget]_vars

\* Buffers handed to write_at.
Bufs == [1..Alignment -> Bytes]

\* Whole-buffer writes and reads, with read-only views held in between.
NextIO ==
    \/ \E off \in 0..MaxFileLen, buf \in Bufs : WriteAt(off, buf)
    \/ \E off \in 0..MaxFileLen, n \in 0..Alignment : ReadAt(off, n)
    \/ \E off \in 0..MaxFileLen, n \in 0..MaxFileLen : View(off, n)
    \/ \E v \in BagToSet(views) : DropViewRef(v)

SpecIO == InitIO /\ [][NextIO]_vars

\* Iterators made, advanced and dropped.
NextIter ==
    \/ IterNew
    \/ IterNext
    \/ IterDrop

SpecIter == InitIter /\ [][NextIter]_vars

\* Arguments the constructors and resize are called with.
OpenLens == {0, 1, Alignment + 1}
OpenCapacities == {1}
OpenBlockSizes == {0, Alignment, Alignment + 1}

\* A File is opened by one of the constructors, then viewed and resized.
NextOpen ==
    \/ \E l \in OpenLens : FileMut_new(l)
    \/ \E l \in OpenLens, cap \in OpenCapacities, cbs \in OpenBlockSizes :
          FileMut_with_cache(l, cap, cbs)
    \/ \E l \in OpenLens : FileRef_new(l)
    \/ \E l \in OpenLens, cap \in OpenCapacities, cbs \in OpenBlockSizes :
          FileRef_with_cache(l, cap, cbs)
    \/ \E new_len \in OpenLens : Resize(new_len)
    \/ mode # "Closed" /\ Next

SpecOpen == InitClosed /\ [][NextOpen]_vars

\* Offsets and lengths a caller may pass: small ones and the largest usize.
WideArgs == (0..(Alignment + 1)) \cup {UsizeMax}

\* Files of one byte and of two pages.
InitBounds == Open({1, 2 * Alignment})

\* Every operation of the facade that checks its arguments, on writable and
\* read-only files, called with small and with very large arguments.
NextBounds ==
    \/ \E off \in WideArgs, n \in WideArgs : View(off, n)
    \/ \E v \in BagToSet(views) : DropViewRef(v)
    \/ \E off \in WideArgs, n \in WideArgs : ViewMut(off, n)
    \/ DropViewMut
    \/ \E src \in WideArgs, dst \in WideArgs, count \in WideArgs :
          CopyWithin(src, dst, count)
    \/ \E new_len \in {0, 1, Alignment + 1} : Resize(new_len)

SpecBounds == InitBounds /\ [][NextBounds]_vars

\* Arguments in bounds, out of bounds and overflowing.
ProbeArgs == {0, MaxFileLen, UsizeMax}

\* Read-only files.
InitReadonly == Open({1, MaxFileLen - 1}) /\ mode = "Readonly"

\* A ViewRef the caller can drop: not the one the iterator keeps.
Droppable(v) ==
    IF iter = None THEN TRUE
    ELSE IF v # Handle(iter.view) THEN TRUE
    ELSE CopiesIn(v, views) > 1

\* Every operation of the facade on a read-only file, those that need a
\* writable file included.
NextReadonly ==
    \/ \E off \in 0..MaxFileLen, n \in 0..MaxFileLen : View(off, n)
    \/ \E v \in BagToSet(views) : Droppable(v) /\ DropViewRef(v)
    \/ \E off \in WideArgs, n \in WideArgs : ViewMut(off, n)
    \/ \E src \in ProbeArgs, dst \in ProbeArgs, count \in ProbeArgs :
          CopyWithin(src, dst, count)
    \/ \E new_len \in {0, 1, Alignment + 1} : Resize(new_len)
    \/ IterNew
    \/ IterNext
    \/ IterDrop

SpecReadonly == InitReadonly /\ [][NextReadonly]_vars

\* Writable files of MaxPages - 1 pages with any contents.
CopyLen == MaxFileLen - Alignment
InitCopy ==
    /\ OpenCache({CopyLen})
    /\ mode = "Writable"
    /\ bytes \in Contents(raw_len)

\* Bytes copied within the file, between read-only views that fill the cache.
NextCopy ==
    \/ \E src \in 0..CopyLen, dst \in 0..CopyLen, count \in 0..(Alignment + 1) :
          CopyWithin(src, dst, count)
    \/ \E off \in {0, Alignment}, n \in {Alignment, CopyLen} : View(off, n)
    \/ \E v \in BagToSet(views) : DropViewRef(v)

SpecCopy == InitCopy /\ [][NextCopy]_vars

\* Writable files of one page and of two.
InitResize == Open({Alignment, 2 * Alignment}) /\ mode = "Writable"

\* The bytes written one at a time.
Bufs1 == [1..1 -> Bytes]

\* Bytes written and read back while the file shrinks and grows and views
\* of whole pages push blocks out of the cache.
NextResize ==
    \/ \E off \in 0..(2 * Alignment - 1), buf \in Bufs1 : WriteAt(off, buf)
    \/ \E off \in 0..(2 * Alignment - 1) : ReadAt(off, 1)
    \/ \E new_len \in {1, Alignment + 1} : Resize(new_len)
    \/ \E off \in {0, Alignment} : View(off, Alignment)
    \/ \E v \in BagToSet(views) : DropViewRef(v)

SpecResize == InitResize /\ [][NextResize]_vars

\* ---------------------------------------------- several threads, one File
\* The lock sections of Cache::take, Take::or_fetch and Cache::restore_ref,
\* one action each.  A thread runs a section atomically (the RwLock of the
\* container it touches is held throughout) and any thread may run between
\* two sections.  A ViewRef is Send: whichever thread holds it may drop it.
At(t, pc) == th[t].pc = pc
Goto(t, pc, off, n, block) ==
    th' = [th EXCEPT ![t] = [pc |-> pc, off |-> off, n |-> n, block |-> block]]
\* Calls of view that have not returned.
Taking == Cardinality({t \in Threads : th[t].pc \in {"search", "fetch", "push"}})

\* File::view up to the end of Cache::acquire_available (available.write()).
TakeAcquire(t, off, n) ==
    /\ At(t, "idle")
    /\ mview = None
    /\ BagCardinality(views) + Taking < MaxViews
    /\ \E c \in check_file_bounds(off, n) :
       IF c = "panic"
       THEN /\ ret' = [op |-> "view", res |-> "panic", view |-> None]
            /\ UNCHANGED <<available, len, freed, th>>
       ELSE LET i == acquire_available(off, n)
            IN  /\ ret' = [op |-> "acquire_available", res |-> "ok", view |-> None]
                /\ IF i > 0
                   THEN /\ available' = RemoveAt(available, i)
                        /\ len' = len - 1
                        /\ freed' = FreedNext(freed, {available[i].ptr}, {})
                        /\ Goto(t, "push", off, n, available[i])
                   ELSE /\ Goto(t, "search", off, n, None)
                        /\ UNCHANGED <<available, len, freed>>
    /\ ev' = <<>>
    /\ UNCHANGED <<lent, exclusive, capacity, raw_len, mode, cache_block_size, bytes,
                   views, mview, forgotten, wr, iter>>

\* Cache::take, the else branch: the search of lent and the view_ref of the
\* block found, under lent.read().
TakeLent(t) ==
    /\ At(t, "search")
    /\ LET j == RFind(lent, LAMBDA b: is_hit(b, th[t].off, th[t].n))
       IN  IF j > 0
           THEN /\ lent' = [lent EXCEPT ![j] = view_ref_block(@)]
                /\ views' = views (+) SetToBag({Handle(view_ref(lent[j], th[t].off, th[t].n))})
                /\ ret' = [op |-> "view", res |-> "ok",
                           view |-> view_ref(lent[j], th[t].off, th[t].n)]
                /\ Goto(t, "idle", 0, 0, None)
           ELSE /\ ret' = [op |-> "take", res |-> "miss", view |-> None]
                /\ Goto(t, "fetch", th[t].off, th[t].n, None)
                /\ UNCHANGED <<lent, views>>
    /\ ev' = <<>>
    /\ UNCHANGED <<available, exclusive, len, capacity, raw_len, mode, cache_block_size,
                   bytes, mview, forgotten, freed, wr, iter>>

\* Take::or_fetch on an empty Take: File::fetch, which holds no lock, and
\* CachedBlock::new on its mapping.
OrFetch(t) ==
    /\ At(t, "fetch")
    /\ LET req == fetch(th[t].off, th[t].n)
       IN  \/ /\ ret' = [op |-> "view", res |-> "err", view |-> None]
              /\ ev' = <<>>
              /\ Goto(t, "idle", 0, 0, None)
           \/ /\ CanMap(req)
              /\ LET block == CachedBlock_new(RawView(req))
                 IN  /\ ret' = [op |-> "fetch", res |-> "ok", view |-> None]
                     /\ ev' = <<Call("map", block)>>
                     /\ Goto(t, "push", th[t].off, th[t].n, block)
    /\ UNCHANGED <<available, lent, exclusive, len, capacity, raw_len, mode,
                   cache_block_size, bytes, views, mview, forgotten, freed, wr, iter>>

\* view_ref of the block the thread holds and lent.write().push(block): the
\* end of the first branch of Cache::take, and Cache::add_fetched_ref.
TakePush(t) ==
    /\ At(t, "push")
    /\ lent' = Append(lent, view_ref_block(th[t].block))
    /\ views' = views (+) SetToBag({Handle(view_ref(th[t].block, th[t].off, th[t].n))})
    /\ ret' = [op |-> "view", res |-> "ok",
               view |-> view_ref(th[t].block, th[t].off, th[t].n)]
    /\ ev' = <<>>
    /\ Goto(t, "idle", 0, 0, None)
    /\ UNCHANGED <<available, exclusive, len, capacity, raw_len, mode, cache_block_size,
                   bytes, mview, forgotten, freed, wr, iter>>

\* Mutant of the lent section of restore_ref: the block leaves lent whatever
\* its counter says.
restore_ref_lent_eager(le, v) ==
    LET j == LFind(le, LAMBDA b: holds(b, v.base_ptr))
    IN  IF j = 0
        THEN [lent |-> le, block |-> None]
        ELSE [lent |-> RemoveAt(le, j), block |-> [le[j] EXCEPT !.refs = @ - 1]]

\* Cache::restore_ref under lent.write(): the first block that holds the base
\* pointer gives a reference back, and leaves lent if that was its last.
restore_ref_lent(le, v) ==
    LET j == LFind(le, LAMBDA b: holds(b, v.base_ptr))
    IN  IF j = 0
        THEN [lent |-> le, block |-> None]
        ELSE IF le[j].refs = 1
        THEN [lent |-> RemoveAt(le, j), block |-> [le[j] EXCEPT !.refs = @ - 1]]
        ELSE [lent |-> [le EXCEPT ![j].refs = @ - 1], block |-> None]

\* Drop for ViewRef up to mem::drop(lent) in Cache::restore_ref.
RestoreRefLent(t, v) ==
    /\ At(t, "idle")
    /\ BagIn(v, views)
    /\ LET r == restore_ref_lent(lent, v)
       IN  /\ lent' = r.lent
           /\ IF r.block = None
              THEN /\ ret' = [op |-> "drop_ref", res |-> "ok", view |-> None]
                   /\ UNCHANGED th
              ELSE /\ ret' = [op |-> "restore_ref", res |-> "ok", view |-> None]
                   /\ Goto(t, "add", 0, 0, r.block)
    /\ views' = views (-) SetToBag({v})
    /\ ev' = <<>>
    /\ UNCHANGED <<available, exclusive, len, capacity, raw_len, mode, cache_block_size,
                   bytes, mview, forgotten, freed, wr, iter>>

\* The end of Cache::restore_ref: add_available of the block taken out of
\* lent, under available.write().
RestoreRefAdd(t) ==
    /\ At(t, "add")
    /\ LET r == add_available(available, th[t].block)
       IN  /\ available' = r.available
           /\ len' = r.len
           /\ ev' = r.ev
           /\ freed' = FreedNext(freed, UnmappedBy(r.ev), {th[t].block.ptr})
    /\ ret' = [op |-> "drop_ref", res |-> "ok", view |-> None]
    /\ Goto(t, "idle", 0, 0, None)
    /\ UNCHANGED <<lent, exclusive, capacity, raw_len, mode, cache_block_size, bytes,
                   views, mview, forgotten, wr, iter>>

\* A read-only file that ends inside its last page, shared by the threads.
InitThreads ==
    /\ Open({MaxFileLen - 1})
    /\ mode = "Readonly"

NextThreads ==
    \/ \E t \in Threads, off \in {0, Alignment, 2 * Alignment}, n \in {1, Alignment} :
          TakeAcquire(t, off, n)
    \/ \E t \in Threads : TakeLent(t)
    \/ \E t \in Threads : OrFetch(t)
    \/ \E t \in Threads : TakePush(t)
    \/ \E t \in Threads, v \in BagToSet(views) : RestoreRefLent(t, v)
    \/ \E t \in Threads : RestoreRefAdd(t)

SpecThreads == InitThreads /\ [][NextThreads]_vars

\* ------------------------------------------------- align_add / align_sub
\* The alignment functions on their own: the argument is any usize up to
\* MaxAlignArg or within MaxAlignArg of the largest one.
AlignArgs == (0..MaxAlignArg) \cup ((UsizeMax - MaxAlignArg)..UsizeMax)

\* align_add(n): the value returned; where the sum overflows, a build with
\* overflow checks panics instead and a build without returns the wrapped sum.
AlignAdd(n) ==
    /\ mode = "Closed"
    /\ LET offset == n % Alignment
           pad == IF offset > 0 THEN Alignment - offset ELSE 0
       IN  ret' \in {[op |-> "align_add", res |-> "ok", view |-> None, n |-> n,
                     val |-> align_add(n)]}
                    \cup (IF Overflows(n, pad)
                          THEN {[op |-> "align_add", res |-> "panic", view |-> None,
                                 n |-> n, val |-> 0]}
                          ELSE {})
    /\ UNCHANGED <<available, lent, exclusive, len, capacity, raw_len, mode,
                   cache_block_size, bytes, views, mview, forgotten, ev, freed,
                   wr, iter, th>>

\* align_sub(n): the division and the product cannot leave usize.
AlignSub(n) ==
    /\ mode = "Closed"
    /\ ret' = [op |-> "align_sub", res |-> "ok", view |-> None, n |-> n,
               val |-> align_sub(n)]
    /\ UNCHANGED <<available, lent, exclusive, len, capacity, raw_len, mode,
                   cache_block_size, bytes, views, mview, forgotten, ev, freed,
                   wr, iter, th>>

NextAlign ==
    \/ \E n \in AlignArgs : AlignAdd(n)
    \/ \E n \in AlignArgs : AlignSub(n)

SpecAlign == InitClosed /\ [][NextAlign]_vars

\* ------------------------------------------------ resize to any length
\* Lengths handed to resize: zero, inside a page, past a page, the largest
\* usize.
ResizeArgs == {0, 1, Alignment + 1, UsizeMax}

\* A writable file whose cache fills with clean and dirty blocks between
\* the calls of resize.
NextTruncate ==
    \/ \E new_len \in ResizeArgs : Resize(new_len)
    \/ \E off \in {0, Alignment}, n \in {1, Alignment} : View(off, n)
    \/ \E v \in BagToSet(views) : DropViewRef(v)
    \/ \E off \in {0, Alignment}, n \in {1, Alignment} : ViewMut(off, n)
    \/ DropViewMut

SpecTruncate == InitResize /\ [][NextTruncate]_vars

\* ------------------------------------------------ the locks of the cache
\* The same operations with the three locks of Cache made explicit.  The
\* position of a thread says which lock it waits for ("w_", "m_w_", "d_w_")
\* or holds ("h_", "m_h_", "d_h_"); the body of a lock section runs in the
\* step that releases the lock.  view_mut and the Drop of a ViewMut need
\* `&mut` access to the cache: they run while no other call is in progress.
\* The history of frees is not kept here.
Locked ==
    [w_acq |-> "h_acq", w_search |-> "h_search", w_push |-> "h_push",
     w_rest |-> "h_rest", w_add |-> "h_add", m_w_lent |-> "m_h_lent",
     m_w_acq |-> "m_h_acq", m_w_ex |-> "m_h_ex", d_w_ex |-> "d_h_ex",
     d_w_add |-> "d_h_add"]

\* The lock a waiting thread asks for.
Wants ==
    [w_acq |-> "available", w_search |-> "lent_r", w_push |-> "lent_w",
     w_rest |-> "lent_w", w_add |-> "available", m_w_lent |-> "lent_r",
     m_w_acq |-> "available", m_w_ex |-> "exclusive", d_w_ex |-> "exclusive",
     d_w_add |-> "available"]

\* Mutant of restore_ref: the guard of lent lives to the end of the function.
restore_ref_keeps_lent == {"lent_w"}

\* Cache::restore_ref, `std::mem::drop(lent)` before add_available: the
\* locks still held when add_available is called.
restore_ref_keeps == {}

\* The locks a thread holds at a position.
Holding(pc) ==
    IF pc \in {"h_acq", "m_h_acq", "d_h_add"} THEN {"available"}
    ELSE IF pc \in {"h_search", "m_h_lent"} THEN {"lent_r"}
    ELSE IF pc \in {"h_push", "h_rest"} THEN {"lent_w"}
    ELSE IF pc \in {"m_h_ex", "d_h_ex"} THEN {"exclusive"}
    ELSE IF pc = "w_add" THEN restore_ref_keeps
    ELSE IF pc = "h_add" THEN {"available"} \cup restore_ref_keeps
    ELSE {}

\* RwLock / Mutex: lock l can be given to thread t.
Grantable(t, l) ==
    \A u \in Threads \ {t} :
        LET h == Holding(th[u].pc)
        IN  /\ l \notin h
            /\ l = "lent_w" => "lent_r" \notin h
            /\ l = "lent_r" => "lent_w" \notin h

AllIdle == \A u \in Threads : th[u].pc = "idle"
\* A call that needs `&mut` access is in progress.
MutBusy == \E u \in Threads : th[u].pc \in
    {"m_w_lent", "m_h_lent", "m_w_acq", "m_h_acq", "m_fetch", "m_w_ex", "m_h_ex",
     "d_w_ex", "d_h_ex", "d_w_add", "d_h_add"}
\* Calls of view in progress.
Viewing == Cardinality({u \in Threads : th[u].pc \in
    {"w_acq", "h_acq", "w_search", "h_search", "fetch", "w_push", "h_push"}})

\* lock(): the thread is given the lock it waits for.
LkLock(t) ==
    /\ th[t].pc \in DOMAIN Wants
    /\ Grantable(t, Wants[th[t].pc])
    /\ th' = [th EXCEPT ![t].pc = Locked[@]]
    /\ UNCHANGED <<available, lent, exclusive, len, capacity, raw_len, mode,
                   cache_block_size, bytes, views, mview, forgotten, ev, ret,
                   freed, wr, iter>>

\* File::view: the bounds check, then Cache::take asks for available.
LkView(t, off, n) ==
    /\ At(t, "idle")
    /\ mview = None /\ ~MutBusy
    /\ BagCardinality(views) + Viewing < MaxViews
    /\ \E c \in check_file_bounds(off, n) :
       IF c = "panic"
       THEN /\ ret' = [op |-> "view", res |-> "panic", view |-> None]
            /\ UNCHANGED th
       ELSE /\ ret' = [op |-> "view", res |-> "called", view |-> None]
            /\ Goto(t, "w_acq", off, n, None)
    /\ ev' = <<>>
    /\ UNCHANGED <<available, lent, exclusive, len, capacity, raw_len, mode,
                   cache_block_size, bytes, views, mview, forgotten, freed, wr, iter>>

\* Cache::acquire_available, to the release of available.
LkAcquire(t) ==
    /\ At(t, "h_acq")
    /\ LET i == acquire_available(th[t].off, th[t].n)
       IN  IF i > 0
           THEN /\ available' = RemoveAt(available, i)
                /\ len' = len - 1
                /\ UNCHANGED freed
                /\ Goto(t, "w_push", th[t].off, th[t].n, available[i])
           ELSE /\ Goto(t, "w_search", th[t].off, th[t].n, None)
                /\ UNCHANGED <<available, len>>
                /\ UNCHANGED freed
    /\ ret' = [op |-> "acquire_available", res |-> "ok", view |-> None]
    /\ ev' = <<>>
    /\ UNCHANGED <<lent, exclusive, capacity, raw_len, mode, cache_block_size, bytes,
                   views, mview, forgotten, wr, iter>>

\* Cache::take, the search of lent, to the release of lent.read().
LkSearch(t) ==
    /\ At(t, "h_search")
    /\ LET j == RFind(lent, LAMBDA b: is_hit(b, th[t].off, th[t].n))
       IN  IF j > 0
           THEN /\ lent' = [lent EXCEPT ![j] = view_ref_block(@)]
                /\ views' = views (+) SetToBag({Handle(view_ref(lent[j], th[t].off, th[t].n))})
                /\ ret' = [op |-> "view", res |-> "ok", view |-> None]
                /\ Goto(t, "idle", 0, 0, None)
           ELSE /\ ret' = [op |-> "take", res |-> "miss", view |-> None]
                /\ Goto(t, "fetch", th[t].off, th[t].n, None)
                /\ UNCHANGED <<lent, views>>
    /\ ev' = <<>>
    /\ UNCHANGED <<available, exclusive, len, capacity, raw_len, mode, cache_block_size,
                   bytes, mview, forgotten, freed, wr, iter>>

\* Take::or_fetch on an empty Take: File::fetch, no lock held.
LkFetch(t) ==
    /\ At(t, "fetch")
    /\ LET req == fetch(th[t].off, th[t].n)
       IN  \/ /\ ret' = [op |-> "view", res |-> "err", view |-> None]
              /\ ev' = <<>>
              /\ Goto(t, "idle", 0, 0, None)
           \/ /\ CanMap(req)
              /\ LET block == CachedBlock_new(RawView(req))
                 IN  /\ ret' = [op |-> "fetch", res |-> "ok", view |-> None]
                     /\ ev' = <<Call("map", block)>>
                     /\ Goto(t, "w_push", th[t].off, th[t].n, block)
    /\ UNCHANGED <<available, lent, exclusive, len, capacity, raw_len, mode,
                   cache_block_size, bytes, views, mview, forgotten, freed, wr, iter>>

\* lent.write().push(block) of Cache::take and Cache::add_fetched_ref.
LkPush(t) ==
    /\ At(t, "h_push")
    /\ lent' = Append(lent, view_ref_block(th[t].block))
    /\ views' = views (+) SetToBag({Handle(view_ref(th[t].block, th[t].off, th[t].n))})
    /\ ret' = [op |-> "view", res |-> "ok", view |-> None]
    /\ ev' = <<>>
    /\ Goto(t, "idle", 0, 0, None)
    /\ UNCHANGED <<available, exclusive, len, capacity, raw_len, mode, cache_block_size,
                   bytes, mview, forgotten, freed, wr, iter>>

\* Drop for ViewRef: Cache::restore_ref asks for lent.
LkDropRef(t, v) ==
    /\ At(t, "idle")
    /\ BagIn(v, views)
    /\ views' = views (-) SetToBag({v})
    /\ th' = [th EXCEPT ![t] = [pc |-> "w_rest", off |-> 0, n |-> 0, block |-> None,
                                view |-> v]]
    /\ ret' = [op |-> "drop_ref", res |-> "called", view |-> None]
    /\ ev' = <<>>
    /\ UNCHANGED <<available, lent, exclusive, len, capacity, raw_len, mode,
                   cache_block_size, bytes, mview, forgotten, freed, wr, iter>>

\* Cache::restore_ref to mem::drop(lent), or to its end.
LkRestore(t) ==
    /\ At(t, "h_rest")
    /\ LET r == restore_ref_lent(lent, th[t].view)
       IN  /\ lent' = r.lent
           /\ IF r.block = None
              THEN Goto(t, "idle", 0, 0, None)
              ELSE Goto(t, "w_add", 0, 0, r.block)
    /\ ret' = [op |-> "restore_ref", res |-> "ok", view |-> None]
    /\ ev' = <<>>
    /\ UNCHANGED <<available, exclusive, len, capacity, raw_len, mode, cache_block_size,
                   bytes, views, mview, forgotten, freed, wr, iter>>

\* Cache::add_available of the block the thread holds: the end of
\* restore_ref ("h_add") and of restore_mut ("d_h_add").
LkAdd(t) ==
    /\ th[t].pc \in {"h_add", "d_h_add"}
    /\ LET r == add_available(available, th[t].block)
       IN  /\ available' = r.available
           /\ len' = r.len
           /\ ev' = r.ev
           /\ UNCHANGED freed
    /\ ret' = [op |-> "add_available", res |-> "ok", view |-> None]
    /\ Goto(t, "idle", 0, 0, None)
    /\ UNCHANGED <<lent, exclusive, capacity, raw_len, mode, cache_block_size, bytes,
                   views, mview, forgotten, wr, iter>>

\* File::view_mut: the checks, then Cache::take_mut asks for lent to read
\* its length.
LkViewMut(t, off, n) ==
    /\ AllIdle
    /\ mview = None /\ views = EmptyBag
    /\ \E c \in (IF mode # "Writable" THEN {"panic"} ELSE check_file_bounds(off, n)) :
       IF c = "panic"
       THEN /\ ret' = [op |-> "view_mut", res |-> "panic", view |-> None]
            /\ UNCHANGED th
       ELSE /\ ret' = [op |-> "view_mut", res |-> "called", view |-> None]
            /\ Goto(t, "m_w_lent", off, n, None)
    /\ ev' = <<>>
    /\ UNCHANGED <<available, lent, exclusive, len, capacity, raw_len, mode,
                   cache_block_size, bytes, views, mview, forgotten, freed, wr, iter>>

\* Cache::take_mut, `assert!(self.lent() == 0)`.
LkMutLent(t) ==
    /\ At(t, "m_h_lent")
    /\ IF lent_len = 0
       THEN /\ ret' = [op |-> "lent", res |-> "ok", view |-> None]
            /\ Goto(t, "m_w_acq", th[t].off, th[t].n, None)
       ELSE /\ ret' = [op |-> "view_mut", res |-> "panic", view |-> None]
            /\ Goto(t, "idle", 0, 0, None)
    /\ ev' = <<>>
    /\ UNCHANGED <<available, lent, exclusive, len, capacity, raw_len, mode,
                   cache_block_size, bytes, views, mview, forgotten, freed, wr, iter>>

\* Cache::take_mut, acquire_available.
LkMutAcquire(t) ==
    /\ At(t, "m_h_acq")
    /\ LET i == acquire_available(th[t].off, th[t].n)
       IN  IF i > 0
           THEN /\ available' = RemoveAt(available, i)
                /\ len' = len - 1
                /\ UNCHANGED freed
                /\ Goto(t, "m_w_ex", th[t].off, th[t].n, available[i])
           ELSE /\ Goto(t, "m_fetch", th[t].off, th[t].n, None)
                /\ UNCHANGED <<available, len>>
                /\ UNCHANGED freed
    /\ ret' = [op |-> "acquire_available", res |-> "ok", view |-> None]
    /\ ev' = <<>>
    /\ UNCHANGED <<lent, exclusive, capacity, raw_len, mode, cache_block_size, bytes,
                   views, mview, forgotten, wr, iter>>

\* TakeMut::or_fetch on an empty TakeMut: File::fetch_impl, no lock held.
LkMutFetch(t) ==
    /\ At(t, "m_fetch")
    /\ LET req == fetch_impl(mode = "Writable", th[t].off, th[t].n)
       IN  \/ /\ ret' = [op |-> "view_mut", res |-> "err", view |-> None]
              /\ ev' = <<>>
              /\ Goto(t, "idle", 0, 0, None)
           \/ /\ CanMap(req)
              /\ LET block == CachedBlock_new(RawView(req))
                 IN  /\ ret' = [op |-> "fetch", res |-> "ok", view |-> None]
                     /\ ev' = <<Call("map", block)>>
                     /\ Goto(t, "m_w_ex", th[t].off, th[t].n, block)
    /\ UNCHANGED <<available, lent, exclusive, len, capacity, raw_len, mode,
                   cache_block_size, bytes, views, mview, forgotten, freed, wr, iter>>

\* `*self.exclusive.lock().unwrap() = Some(block)` of take_mut and
\* add_fetched_mut.
LkMutStore(t) ==
    /\ At(t, "m_h_ex")
    /\ exclusive' = th[t].block
    /\ ev' = DropOld
    /\ mview' = Handle(view_mut(th[t].block, th[t].off, th[t].n))
    /\ ret' = [op |-> "view_mut", res |-> "ok", view |-> None]
    /\ Goto(t, "idle", 0, 0, None)
    /\ UNCHANGED <<available, lent, len, capacity, raw_len, mode, cache_block_size,
                   bytes, views, forgotten, freed, wr, iter>>

\* Drop for ViewMut: Cache::restore_mut asks for exclusive.
LkDropMut(t) ==
    /\ AllIdle
    /\ mview # None
    /\ mview' = None
    /\ Goto(t, "d_w_ex", 0, 0, None)
    /\ ret' = [op |-> "drop_mut", res |-> "called", view |-> None]
    /\ ev' = <<>>
    /\ UNCHANGED <<available, lent, exclusive, len, capacity, raw_len, mode,
                   cache_block_size, bytes, views, forgotten, freed, wr, iter>>

\* Cache::restore_mut: `self.exclusive.lock().unwrap().take().unwrap()` and
\* block.restore_mut(view).
LkMutTake(t) ==
    /\ At(t, "d_h_ex")
    /\ IF exclusive = None
       THEN /\ ret' = [op |-> "drop_mut", res |-> "panic", view |-> None]
            /\ Goto(t, "idle", 0, 0, None)
       ELSE /\ ret' = [op |-> "restore_mut", res |-> "ok", view |-> None]
            /\ Goto(t, "d_w_add", 0, 0, [exclusive EXCEPT !.dirty = TRUE])
    /\ exclusive' = None
    /\ ev' = <<>>
    /\ UNCHANGED <<available, lent, len, capacity, raw_len, mode, cache_block_size,
                   bytes, views, mview, forgotten, freed, wr, iter>>

\* What thread t does once it has called into the cache.
LkStep(t) ==
    \/ LkLock(t)
    \/ LkAcquire(t)
    \/ LkSearch(t)
    \/ LkFetch(t)
    \/ LkPush(t)
    \/ LkRestore(t)
    \/ LkAdd(t)
    \/ LkMutLent(t)
    \/ LkMutAcquire(t)
    \/ LkMutFetch(t)
    \/ LkMutStore(t)
    \/ LkMutTake(t)

\* A writable file of two pages behind a cache that keeps one block.
InitLocks ==
    /\ Open({2 * Alignment})
    /\ mode = "Writable"
    /\ capacity = 1
    /\ cache_block_size = Alignment

NextLocks ==
    \/ \E t \in Threads, off \in {0, Alignment} : LkView(t, off, 1)
    \/ \E t \in Threads, v \in BagToSet(views) : LkDropRef(t, v)
    \/ \E t \in Threads : LkViewMut(t, 0, 1)
    \/ \E t \in Threads : LkDropMut(t)
    \/ \E t \in Threads : LkStep(t)

SpecLocks == InitLocks /\ [][NextLocks]_vars

\* Fair scheduling and fair locks: a thread that could again and again take
\* its next step inside the cache takes it.
SpecLocksFair == SpecLocks /\ \A t \in Threads : SF_vars(LkStep(t))

\* ================================================================ claims

\* C1: the available queue never holds more than capacity blocks, whatever
\* the number of blocks in lent and exclusive.
C1_AvailableWithinCapacity == Len(available) <= capacity

\* C1 witness: a full queue of capacity two, right after a returned block
\* made add_available evict a block it does not overlap.
C1_Witness ==
    /\ ret.op = "drop_ref"
    /\ capacity = 2
    /\ Len(available) = capacity
    /\ \E i \in 1..Len(ev) :
          /\ ev[i].e = "unmap"
          /\ ~is_overlapping(available[Len(available)], ev[i].off, ev[i].len)

\* C6: no block is in two of available, lent and exclusive (blocks are told
\* apart by their base address), nor twice in one of them; exclusive is
\* empty or one block.
C6_Partition ==
    /\ PtrsOf(available) \cap PtrsOf(lent) = {}
    /\ exclusive # None =>
          exclusive.ptr \notin PtrsOf(available) \cup PtrsOf(lent)
    /\ Cardinality(PtrsOf(available)) = Len(available)
    /\ Cardinality(PtrsOf(lent)) = Len(lent)
    /\ Cardinality(Mapped) = Cardinality(AllBlocks)

\* C6 witness: all three containers hold a block at once.
C6_Witness ==
    /\ Len(available) > 0
    /\ Len(lent) > 0
    /\ exclusive # None

\* C7: blocks in available and the block in exclusive have borrow counter 0;
\* a block in lent has a counter >= 1 equal to the number of ViewRefs on it
\* whose Drop has not run.
C7_BorrowCount ==
    /\ \A b \in SeqSet(available) : b.refs = 0
    /\ exclusive # None => exclusive.refs = 0
    /\ \A b \in SeqSet(lent) : b.refs >= 1 /\ b.refs = OutstandingRefs(b.ptr)

\* C7 witness: one lent block with two ViewRefs outstanding on it.
C7_Witness ==
    \E b \in SeqSet(lent) : b.refs = 2 /\ OutstandingRefs(b.ptr) = 2

\* C2 as stated: the exclusive slot holds a block only while lent is empty,
\* and lent is non-empty only while the exclusive slot is empty.
C2_Original ==
    /\ exclusive # None => lent = <<>>
    /\ lent # <<>> => exclusive = None

\* C2 amended: while the caller holds a ViewMut, lent is empty and the caller
\* holds no ViewRef; while a ViewRef is held or lent is non-empty, no ViewMut
\* is held.
C2_HeldViewMutAlone ==
    mview # None => (lent = <<>> /\ views = EmptyBag /\ exclusive # None)

\* C2 witness: a ViewMut is held over a block taken from a cache that has
\* served read-only views before.
C2_Witness ==
    /\ mview # None
    /\ exclusive # None /\ exclusive.ptr = mview.base_ptr
    /\ lent = <<>>
    /\ Len(available) > 0

\* C3 as stated: no operation unmaps a block named by a ViewRef or ViewMut
\* whose Drop has not run.
C3_Original ==
    [][\A i \in 1..Len(ev') :
          ev'[i].e = "unmap" =>
              OutstandingRefs(ev'[i].ptr) = 0 /\ OutstandingMuts(ev'[i].ptr) = 0]_vars

\* C4: a read_at that follows a write_at(b, o) at the same offset and with
\* the same length returns b, whatever reads and read-only views came in
\* between.
C4_RoundTrip ==
    (/\ ret.op = "read_at" /\ ret.res = "ok"
     /\ wr # None
     /\ ret.off = wr.off /\ Len(ret.buf) = Len(wr.buf))
    => ret.buf = wr.buf

\* C4 witness: a read returns a written buffer that is not all zero and that
\* lies across a page boundary.
C4_Witness ==
    /\ ret.op = "read_at" /\ ret.res = "ok"
    /\ wr # None
    /\ ret.off = wr.off /\ ret.buf = wr.buf
    /\ wr.off % Alignment # 0
    /\ \E i \in 1..Len(wr.buf) : wr.buf[i] # 0

\* Indices of the calls in es that unmap a block not overlapping block b.
Evictions(es, b) ==
    {i \in 1..Len(es) :
        /\ es[i].e = "unmap"
        /\ ~(es[i].off < b.off + b.len /\ b.off < es[i].off + es[i].len)}
\* Indices of the calls of kind e on pointer p in es.
CallsOn(es, e, p) == {i \in 1..Len(es) : es[i].e = e /\ es[i].ptr = p}

\* C5: when a Drop returns a block and the capacity limit evicts a block of
\* available, a dirty evicted block is flushed exactly once and before its
\* one unmap, and a clean evicted block is unmapped with no flush.
C5_FlushOnEviction ==
    [][(ret'.op \in {"drop_ref", "drop_mut"} /\ available' # <<>>) =>
         \A i \in Evictions(ev', available'[Len(available')]) :
            LET p == ev'[i].ptr
                b == BlockAt(SeqSet(available), p)
            IN  /\ p \in PtrsOf(available)
                /\ CallsOn(ev', "unmap", p) = {i}
                /\ IF b.dirty
                   THEN \E k \in 1..(i - 1) : CallsOn(ev', "flush", p) = {k}
                   ELSE CallsOn(ev', "flush", p) = {}]_vars

\* C5 witness: a Drop has just evicted a dirty block, flushing it first.
C5_Witness ==
    /\ ret.op \in {"drop_ref", "drop_mut"}
    /\ available # <<>>
    /\ \E i \in Evictions(ev, available[Len(available)]) :
          i > 1 /\ ev[i - 1].e = "flush" /\ ev[i - 1].ptr = ev[i].ptr

\* C8: the Drop of a ViewRef lowers the counter of the lent block it names
\* and touches no other lent block; the block goes from lent to the back of
\* available exactly when that ViewRef was the last one on it, and otherwise
\* lent and available keep their sizes and available its contents.
C8_DropViewRef ==
    [][\A v \in BagToSet(views) :
         DropViewRef(v) =>
            LET p    == v.base_ptr
                b    == BlockAt(SeqSet(lent), p)
                last == OutstandingRefs(p) = 1
            IN  /\ p \in PtrsOf(lent)
                /\ \A c \in SeqSet(lent) : c.ptr # p => c \in SeqSet(lent')
                /\ IF last
                   THEN /\ p \notin PtrsOf(lent')
                        /\ Len(lent') = Len(lent) - 1
                        /\ available' # <<>>
                        /\ available'[Len(available')] = [b EXCEPT !.refs = 0]
                   ELSE /\ p \in PtrsOf(lent')
                        /\ BlockAt(SeqSet(lent'), p) = [b EXCEPT !.refs = @ - 1]
                        /\ Len(lent') = Len(lent)
                        /\ available' = available]_vars

\* C8 witness: one of two ViewRefs on a block has been dropped, the block is
\* still lent with one ViewRef left.
C8_Witness ==
    /\ ret.op = "drop_ref"
    /\ ev = <<>>
    /\ \E b \in SeqSet(lent) : b.refs = 1 /\ OutstandingRefs(b.ptr) = 1
    /\ BagCardinality(views) = 1
    /\ Len(lent) = 1

\* Block b spans the whole of [off, off + n).
Contains(b, off, n) == b.off <= off /\ off + n <= b.off + b.len

\* C9: in every state where view may be called, an in-bounds view(off, n)
\* maps nothing when a block of available or lent contains the range; the
\* view then names such a block B with inner offset off - B.off and length
\* n; a block of available moves to lent, a block of lent stays and lent
\* keeps its size; a block is mapped only when no block contains the range.
C9_ContainmentHit ==
    mview = None =>
      \A off \in 0..MaxFileLen, n \in 0..MaxFileLen :
         off + n <= raw_len =>
            \A o \in take(off, n) :
               LET A == {b \in SeqSet(available) : Contains(b, off, n)}
                   L == {b \in SeqSet(lent) : Contains(b, off, n)}
                   fetched == \E i \in 1..Len(o.ev) : o.ev[i].e = "map"
               IN  IF A \cup L # {}
                   THEN /\ o.res = "ok"
                        /\ ~fetched
                        /\ \E b \in A \cup L :
                             /\ o.view = [base_ptr |-> b.ptr,
                                          off |-> off - b.off, len |-> n]
                             /\ b.ptr \in PtrsOf(o.lent)
                             /\ b.ptr \notin PtrsOf(o.available)
                             /\ b \in A => Len(o.lent) = Len(lent) + 1
                             /\ b \in L => (Len(o.lent) = Len(lent)
                                            /\ o.available = available)
                   ELSE o.res = "err" \/ fetched

\* C9 witness: a view of a proper sub-range, not starting where the block
\* starts, has been served from the cache without mapping.
C9_Witness ==
    /\ ret.op = "view" /\ ret.res = "ok"
    /\ ev = <<>>
    /\ ret.view.off > 0 /\ ret.view.len > 0
    /\ \E b \in SeqSet(lent) :
          b.ptr = ret.view.base_ptr /\ ret.view.off + ret.view.len < b.len

\* C10: available is ordered by the time its blocks were last returned; a
\* returned block goes to the most recent end; when the queue, after the
\* overlap purge, is full, the one block evicted is the least recently
\* returned one, and otherwise none is evicted.
C10_LeastRecentlyFreed ==
    [][(/\ ret'.op \in {"drop_ref", "drop_mut"}
        /\ available' # <<>>
        /\ available'[Len(available')].ptr \notin PtrsOf(available)) =>
          LET B      == available'[Len(available')]
              purged == {b.ptr : b \in {c \in SeqSet(available) :
                            c.off < B.off + B.len /\ B.off < c.off + c.len}}
              rest   == SelectSeq(freed, LAMBDA p : p \notin purged)
              gone   == {ev'[i].ptr : i \in Evictions(ev', B)}
          IN  /\ freed = [i \in 1..Len(available) |-> available[i].ptr]
              /\ IF Len(rest) >= capacity
                 THEN gone = {rest[1]}
                 ELSE gone = {}
              /\ [i \in 1..Len(available') |-> available'[i].ptr]
                    = Append(SelectSeq(rest, LAMBDA p : p \notin gone), B.ptr)]_vars

\* C10 witness: a Drop on a cache of capacity 2 has evicted a block and left
\* the block returned before it in front of the block just returned.
C10_Witness ==
    /\ capacity = 2
    /\ ret.op \in {"drop_ref", "drop_mut"}
    /\ Len(available) = 2
    /\ Evictions(ev, available[2]) # {}
    /\ freed = <<available[1].ptr, available[2].ptr>>

\* C11: right after a Drop has returned block B to available, B is in
\* available, no other block of available intersects B's byte range, and
\* every block of available that intersected it has been unmapped; on a
\* cache of capacity 1 available is then B alone.
C11_OverlapPurge ==
    [][(/\ ret'.op \in {"drop_ref", "drop_mut"}
        /\ available' # <<>>
        /\ available'[Len(available')].ptr \notin PtrsOf(available)) =>
          LET B == available'[Len(available')]
              Meets(c) == c.off < B.off + B.len /\ B.off < c.off + c.len
          IN  /\ \A i \in 1..(Len(available') - 1) : ~Meets(available'[i])
              /\ \A c \in SeqSet(available) :
                    Meets(c) => /\ c.ptr \notin PtrsOf(available')
                                /\ CallsOn(ev', "unmap", c.ptr) # {}
              /\ capacity = 1 => available' = <<B>>]_vars

\* C11 witness: a Drop has returned a block and thereby purged a block of
\* available that it overlaps.
C11_Witness ==
    /\ ret.op \in {"drop_ref", "drop_mut"}
    /\ available # <<>>
    /\ \E i \in 1..Len(ev) :
          /\ ev[i].e = "unmap"
          /\ ev[i].off < available[Len(available)].off + available[Len(available)].len
          /\ available[Len(available)].off < ev[i].off + ev[i].len

\* C12: the Drop of a ViewMut leaves the exclusive slot empty and lent empty
\* as before, and the block that was in the slot, now dirty, is the most
\* recent entry of available.
C12_DropViewMut ==
    [][DropViewMut =>
          /\ exclusive # None
          /\ exclusive' = None
          /\ lent = <<>> /\ lent' = <<>>
          /\ available' # <<>>
          /\ available'[Len(available')] = [exclusive EXCEPT !.dirty = TRUE]]_vars

\* C12 witness: a ViewMut over a block that was clean has been dropped and
\* its block is behind an older block of available.
C12_Witness ==
    /\ ret.op = "drop_mut" /\ ret.res = "ok"
    /\ exclusive = None /\ lent = <<>>
    /\ Len(available) = 2
    /\ available[2].dirty /\ ~available[1].dirty

\* C13: view_mut called while lent is non-empty panics, makes no ViewMut and
\* leaves available, lent and the exclusive slot as they were, with nothing
\* mapped or unmapped.
C13_TakeMutPanics ==
    [][(ret'.op = "view_mut" /\ lent # <<>>) =>
          /\ ret'.res = "panic"
          /\ mview' = None
          /\ ev' = <<>>
          /\ UNCHANGED <<available, lent, exclusive, len>>]_vars

\* C13 witness: view_mut has panicked on a writable file whose cache has a
\* lent block and an available block.
C13_Witness ==
    /\ ret.op = "view_mut" /\ ret.res = "panic"
    /\ mode = "Writable"
    /\ lent # <<>>
    /\ available # <<>>

\* C14: a view or view_mut whose fetch fails returns the error, maps and
\* unmaps nothing and leaves available, lent, the exclusive slot, every
\* counter and every dirty flag as they were.
C14_FailedFetch ==
    [][(ret'.op \in {"view", "view_mut"} /\ ret'.res = "err") =>
          /\ ev' = <<>>
          /\ UNCHANGED <<available, lent, exclusive, len, views, mview>>]_vars

\* C14 witness: a view has failed in its fetch on a cache that has a lent
\* block and a dirty available block.
C14_Witness ==
    /\ ret.op = "view" /\ ret.res = "err"
    /\ lent # <<>>
    /\ \E b \in SeqSet(available) : b.dirty

\* The multiple of Alignment at or below x / at or above x.
AlignDown(x) == CHOOSE m \in 0..x : m % Alignment = 0 /\ x - m < Alignment
AlignUp(x) == CHOOSE m \in x..(x + Alignment) : m % Alignment = 0 /\ m - x < Alignment
\* Range [b, e) is the range fetched for the in-bounds request (off, n).
FetchedFor(b, e, off, n) ==
    /\ b = AlignDown(off)
    /\ e = Min(raw_len, Max(AlignUp(off + n), cache_block_size))
    /\ b <= off /\ off + n <= e
    /\ e <= raw_len
    /\ e - b >= 0

\* C15: for every in-bounds request (off, n) the range fetched starts at
\* off aligned down and ends at min(file length, max(off + n aligned up,
\* cache block size)); it contains [off, off + n), ends within the file and
\* has no negative length; every block mapped by view or view_mut is that
\* range for the request made.
C15_FetchRange ==
    /\ \A off \in 0..MaxFileLen, n \in 0..MaxFileLen :
          off + n <= raw_len =>
             LET r == fetch_impl(TRUE, off, n)
             IN  FetchedFor(r.off, r.off + r.len, off, n)
    /\ (ret.op \in {"view", "view_mut"} /\ ret.res = "ok") =>
          \A i \in 1..Len(ev) :
             ev[i].e = "map" =>
                FetchedFor(ev[i].off, ev[i].off + ev[i].len,
                           ev[i].off + ret.view.off, ret.view.len)

\* C15 witness: a view near the end of a file whose length is not aligned
\* has mapped a block clipped to the file length.
C15_Witness ==
    /\ ret.op = "view" /\ ret.res = "ok"
    /\ raw_len % Alignment # 0
    /\ \E i \in 1..Len(ev) :
          ev[i].e = "map" /\ ev[i].off + ev[i].len = raw_len

\* C16 as stated: the k-th item an iterator yields is the byte at file
\* offset k (counting from 0).
C16_Original ==
    (iter # None /\ ret.op = "next" /\ ret.res = "some")
    => ret.item = bytes[iter.cum - 1]

\* C17: without I/O errors an iterator over a file of length L yields one
\* item per call until it has yielded L items, and None on every call from
\* then on; it never asks for a view that reaches past the file.
C17_IterFinite ==
    [][ret'.op = "next" =>
          /\ ret'.res # "panic"
          /\ iter.cum <= raw_len
          /\ iter.cum = raw_len => (ret'.res = "none" /\ iter' = iter)
          /\ iter.cum < raw_len =>
                \/ ret'.res = "some" /\ iter'.cum = iter.cum + 1
                \/ ret'.res = "io_panic" /\ iter' = iter]_vars

\* C17 witness: an iterator over a file of more than two cache blocks has
\* yielded every byte and has answered None.
C17_Witness ==
    /\ ret.op = "next" /\ ret.res = "none"
    /\ iter # None /\ iter.cum = raw_len
    /\ raw_len > 2 * cache_block_size

\* C18 as stated: a File opened by FileRef::new or FileMut::new has cache
\* capacity DEFAULT_CACHE_CAPACITY and the cache block size that with_cache
\* makes of DEFAULT_CACHE_BLOCK_SIZE.
C18_Original ==
    (ret.op \in {"FileRef::new", "FileMut::new"} /\ ret.res = "ok") =>
        /\ capacity = DEFAULT_CACHE_CAPACITY
        /\ cache_block_size = fix_cache_block_size(DEFAULT_CACHE_BLOCK_SIZE)

\* The calls that open a File.
OpenOps ==
    {"FileMut::new", "FileMut::with_cache", "FileRef::new", "FileRef::with_cache"}

C20_ZeroLengths ==
    [][/\ (ret'.op \in {"FileMut::new", "FileMut::with_cache"} /\ ret'.len = 0) =>
             (ret'.res = "InvalidInput" /\ mode' = "Closed")
       /\ (ret'.op \in {"FileRef::new", "FileRef::with_cache"} /\ ret'.len = 0) =>
             (ret'.res = "InvalidData" /\ mode' = "Closed")
       /\ (ret'.op = "resize" /\ ret'.len = 0 /\ mode = "Writable") =>
             /\ ret'.res = "InvalidInput"
             /\ UNCHANGED <<raw_len, bytes, available, lent, exclusive, len,
                            capacity, cache_block_size, mode>>]_vars

\* C20 witness: resize(0) has returned InvalidInput on a writable File whose
\* cache holds a dirty block.
C20_Witness ==
    /\ ret.op = "resize" /\ ret.res = "InvalidInput" /\ ret.len = 0
    /\ mode = "Writable"
    /\ \E b \in SeqSet(available) : b.dirty

\* C21 as stated: view and view_mut panic exactly when off + len exceeds
\* the file length, so a view that was granted lies inside the file;
\* copy_within panics with the source message when src + count exceeds the
\* length, otherwise with the destination message when dst + count does,
\* also when count = 0, and otherwise does not panic; a panicking call
\* leaves the cache as it was.
C21_Original ==
    [][/\ (ret'.op = "view" /\ ret'.res = "ok") =>
             LET b == BlockAt(SeqSet(lent'), ret'.view.base_ptr)
             IN  b.off + ret'.view.off + ret'.view.len <= raw_len
       /\ (ret'.op = "view_mut" /\ ret'.res = "ok") =>
             exclusive'.off + ret'.view.off + ret'.view.len <= raw_len
       /\ \A off \in WideArgs, n \in WideArgs :
             check_file_bounds(off, n)
                = {IF off + n > raw_len THEN "panic" ELSE "ok"}
       /\ ret'.op = "copy_within" /\ mode = "Writable" =>
             IF ret'.src + ret'.count > raw_len
             THEN ret'.res = "panic" /\ ret'.msg = "src out of bounds"
             ELSE IF ret'.dst + ret'.count > raw_len
             THEN ret'.res = "panic" /\ ret'.msg = "dst out of bounds"
             ELSE ret'.res # "panic"
       /\ (ret'.op \in {"view", "view_mut", "copy_within"} /\ ret'.res = "panic") =>
             /\ ev' = <<>>
             /\ UNCHANGED <<available, lent, exclusive, len>>]_vars

\* C22: on a read-only file every view_mut, resize and copy_within panics,
\* whatever its arguments, and leaves the file length, the bytes and the
\* cache as they were; after it every in-bounds view of at least one byte,
\* and with it the first view of an iterator, can still be served.
C22_ReadonlyPanics ==
    [][(mode = "Readonly" /\ ret'.op \in {"view_mut", "resize", "copy_within"}) =>
          /\ ret'.res = "panic"
          /\ ev' = <<>>
          /\ UNCHANGED <<available, lent, exclusive, len, raw_len, bytes,
                         mode, views, mview, iter>>
          /\ \A off \in 0..MaxFileLen, n \in 1..MaxFileLen :
                off + n <= raw_len => \E o \in take(off, n) : o.res = "ok"
          /\ \E o \in take(0, Min(raw_len, cache_block_size)) : o.res = "ok"]_vars

\* C22 witness: copy_within with count 0 and a source past the end has
\* panicked on a read-only file that has a cached block.
C22_Witness ==
    /\ mode = "Readonly"
    /\ ret.op = "copy_within" /\ ret.res = "panic"
    /\ ret.count = 0 /\ ret.src > raw_len
    /\ available # <<>>

\* C23 as stated: a copy_within(src, dst, count) that returns Ok leaves at
\* [dst, dst + count) the bytes that were at [src, src + count) and every
\* other byte as it was, whether the ranges overlap or not and whether one
\* cached block or two serve them; with count = 0 nothing changes.
C23_Original ==
    [][(ret'.op = "copy_within" /\ ret'.res = "ok") =>
          /\ bytes' = Memmove(bytes, ret'.src, ret'.dst, ret'.count)
          /\ ret'.count = 0 => bytes' = bytes]_vars

\* C24 as stated: after a copy_within with count > 0 has returned Ok, the
\* block through which the destination was written is dirty while it is
\* cached, and if the call itself unmapped it, it was flushed first.
C24_Original ==
    [][(ret'.op = "copy_within" /\ ret'.res = "ok" /\ ret'.count > 0) =>
          /\ \A b \in SeqSet(available') : b.ptr = ret'.dst_ptr => b.dirty
          /\ \A i \in CallsOn(ev', "unmap", ret'.dst_ptr) :
                \E k \in 1..(i - 1) : k \in CallsOn(ev', "flush", ret'.dst_ptr)]_vars

\* C25: a read of bytes inside the range of the last write returns what
\* was written there, whatever resizes, views and evictions came in between,
\* as long as no resize cut the written range off the file.
C25_ResizeConsistency ==
    (/\ ret.op = "read_at" /\ ret.res = "ok"
     /\ wr # None
     /\ wr.off <= ret.off
     /\ ret.off + Len(ret.buf) <= wr.off + Len(wr.buf))
    => \A i \in 1..Len(ret.buf) : ret.buf[i] = wr.buf[ret.off - wr.off + i]

\* C25 witness: a byte that is not zero is read back, without mapping, from
\* a block that was mapped before the file was cut and that still reaches
\* past the new end of the file.
C25_Witness ==
    /\ ret.op = "read_at" /\ ret.res = "ok"
    /\ wr # None /\ wr.off = ret.off /\ ret.buf = wr.buf /\ wr.buf[1] # 0
    /\ ev = <<>>
    /\ available # <<>>
    /\ LET b == available[Len(available)]
       IN  b.off <= ret.off /\ b.off + b.len > raw_len

\* C26: with several threads calling view and dropping ViewRefs on one
\* read-only file, in every interleaving of their lock sections each ViewRef
\* held names exactly one block, which is in lent and whose mapping is live
\* (no other block, cached or held by a thread, has its address and the last
\* step did not unmap it); the counter of each lent block is the number of
\* ViewRefs held on it; available stays within the capacity and len is its
\* length; and a block in available, on its way to available, or unmapped by
\* the last step has no ViewRef held on it.
C26_ThreadsKeepViewsLive ==
    /\ \A v \in BagToSet(views) :
          /\ Cardinality({i \in 1..Len(lent) : lent[i].ptr = v.base_ptr}) = 1
          /\ v.base_ptr \notin PtrsOf(available)
          /\ v.base_ptr \notin {b.ptr : b \in InFlight}
          /\ v.base_ptr \notin UnmappedBy(ev)
    /\ \A i \in 1..Len(lent) : lent[i].refs = Held(lent[i].ptr)
    /\ Len(available) <= capacity
    /\ len = Len(available)
    /\ \A b \in SeqSet(available) \cup InFlight : Held(b.ptr) = 0
    /\ \A p \in UnmappedBy(ev) : Held(p) = 0

\* One thread has taken a block out of lent and not yet put it in available,
\* the other holds a fresh mapping of the same range it has not yet pushed,
\* and a ViewRef is held meanwhile.
C26_Witness ==
    /\ \E t \in Threads, u \in Threads :
          /\ At(t, "add")
          /\ At(u, "push")
          /\ th[t].block.off = th[u].block.off
    /\ BagCardinality(views) > 0

\* C27: for every usize n, align_add(n) returns the smallest multiple of the
\* alignment that is >= n and align_sub(n) the largest that is <= n: the
\* call returns, the value is a multiple, align_sub(n) <= n <= align_add(n)
\* < n + Alignment, and a multiple (0 included) comes back unchanged.
C27_Original ==
    /\ ret.op = "align_add" =>
          /\ ret.res = "ok"
          /\ ret.val % Alignment = 0
          /\ ret.n <= ret.val
          /\ ret.val < ret.n + Alignment
          /\ ret.n % Alignment = 0 => ret.val = ret.n
    /\ ret.op = "align_sub" =>
          /\ ret.res = "ok"
          /\ ret.val % Alignment = 0
          /\ ret.val <= ret.n
          /\ ret.n < ret.val + Alignment
          /\ ret.n % Alignment = 0 => ret.val = ret.n

\* C28: take_mut fails when the exclusive slot already holds a block as it
\* does when lent is not empty: a view_mut called while the slot is taken
\* (its ViewMut was leaked) or while lent holds a block panics, and leaves
\* the block in the slot where it is, mapped.
C28_Original ==
    [][(ret'.op = "view_mut" /\ (exclusive # None \/ lent # <<>>))
          => /\ ret'.res = "panic"
             /\ exclusive' = exclusive
             /\ exclusive # None => exclusive.ptr \notin UnmappedBy(ev')]_vars

\* C29: every mapping made on a miss is at least cache_block_size long when
\* the file has that many bytes from the mapping's (aligned) offset to its
\* end, at offset 0 and at every other offset.
C29_Original ==
    \A i \in 1..Len(ev) :
        (ev[i].e = "map" /\ raw_len - ev[i].off >= cache_block_size)
            => ev[i].len >= cache_block_size

\* C30: a mapping fetched by view is requested with writable = false, on a
\* file opened writable as on one opened read-only, and a mapping fetched by
\* view_mut is requested writable.
C30_Original ==
    \A i \in 1..Len(ev) :
        ev[i].e = "map" =>
            /\ ret.op = "view" =>
                  \A j \in 1..Len(lent) :
                      lent[j].ptr = ev[i].ptr => ~lent[j].writable
            /\ (ret.op = "view_mut" /\ exclusive # None /\ exclusive.ptr = ev[i].ptr)
                  => exclusive.writable

\* C31: when a Drop returns block B to available, no block that the overlap
\* purge removes from available (a block intersecting B's range) is dirty.
C31_Original ==
    [][(/\ ret'.op \in {"drop_ref", "drop_mut"}
        /\ available' # <<>>
        /\ available'[Len(available')].ptr \notin PtrsOf(available)) =>
          LET B == available'[Len(available')]
          IN  \A c \in SeqSet(available) :
                 is_overlapping(c, B.off, B.len) => ~c.dirty]_vars

\* C32: while the exclusive slot holds a block, no block of available or
\* lent has a range that intersects the range of that block.
C32_Original ==
    exclusive # None =>
        \A b \in SeqSet(available) \cup SeqSet(lent) :
            ~is_overlapping(b, exclusive.off, exclusive.len)

\* The container that holds the block mapped at p, "none" if p is not mapped.
Where(av, le, ex, p) ==
    IF p \in PtrsOf(av) THEN "available"
    ELSE IF p \in PtrsOf(le) THEN "lent"
    ELSE IF ex # None /\ ex.ptr = p THEN "exclusive"
    ELSE "none"

\* C33: in every step each block stays where it is or makes one move of the
\* lifecycle.  A block is created by exactly one map call, into lent with
\* counter 1 or into exclusive; it enters available only from lent by the
\* drop of its last ViewRef or from exclusive by the drop of the ViewMut; it
\* leaves available to lent or exclusive, or is evicted or purged; it never
\* moves between lent and exclusive directly; its offset and length stay as
\* mapped; it leaves the cache only from available, with exactly one unmap
\* call; and an address that is not mapped is the subject of no call.
C33_Original ==
    [][\A p \in Ptrs :
          LET a == Where(available, lent, exclusive, p)
              b == Where(available', lent', exclusive', p)
              old == BlockAt(Blocks(available, lent, exclusive), p)
              new == BlockAt(Blocks(available', lent', exclusive'), p)
          IN  /\ a # b =>
                    <<a, b>> \in {<<"none", "lent">>, <<"none", "exclusive">>,
                                  <<"lent", "available">>, <<"exclusive", "available">>,
                                  <<"available", "lent">>, <<"available", "exclusive">>,
                                  <<"available", "none">>}
              /\ (a = "none" /\ b # "none") =>
                    /\ Cardinality(CallsOn(ev', "map", p)) = 1
                    /\ CallsOn(ev', "unmap", p) = {}
                    /\ b = "lent" => new.refs = 1
              /\ <<a, b>> = <<"lent", "available">> =>
                    old.refs = 1 /\ ret'.op = "drop_ref"
              /\ <<a, b>> = <<"exclusive", "available">> => ret'.op = "drop_mut"
              /\ (a # "none" /\ b # "none") =>
                    /\ new.off = old.off /\ new.len = old.len
                    /\ CallsOn(ev', "map", p) = {} /\ CallsOn(ev', "unmap", p) = {}
              /\ (a # "none" /\ b = "none") =>
                    /\ Cardinality(CallsOn(ev', "unmap", p)) = 1
                    /\ CallsOn(ev', "map", p) = {}
              /\ (a = "none" /\ b = "none") =>
                    \A i \in 1..Len(ev') : ev'[i].ptr # p]_vars

\* C34: the dirty flag of a cached block records that a ViewMut on it has
\* existed.  In every step a block that enters available or lent is clean
\* if it was just mapped and dirty if it comes out of the exclusive slot,
\* and a block that was already in available or lent keeps its flag, also
\* when it is taken into the exclusive slot: the flag of a block of
\* available or lent is set exactly if the block was once in exclusive, and
\* it is never cleared.
C34_DirtyIffMutated ==
    [][/\ \A b \in SeqSet(available') \cup SeqSet(lent') :
             LET a == Where(available, lent, exclusive, b.ptr)
             IN  IF a = "none" THEN ~b.dirty
                 ELSE IF a = "exclusive" THEN b.dirty
                 ELSE b.dirty = BlockAt(SeqSet(available) \cup SeqSet(lent), b.ptr).dirty
       /\ (exclusive' # None /\ exclusive'.ptr \in PtrsOf(available)) =>
             exclusive'.dirty = BlockAt(SeqSet(available), exclusive'.ptr).dirty]_vars

\* C34 witness: a block that was written through a ViewMut is lent again,
\* dirty, through a ViewRef, next to a clean block that has only been read.
C34_Witness ==
    /\ \E i \in 1..Len(lent) : lent[i].dirty
    /\ \E b \in SeqSet(available) \cup SeqSet(lent) : ~b.dirty
    /\ ret.op = "view"

\* C35: resize leaves available, lent, exclusive, the counters and the dirty
\* flags as they are and makes no mapping-layer call on a block; a resize
\* that succeeds for new_len > 0 leaves the file with the smallest multiple
\* of the alignment >= new_len as its length; when that is the length
\* already, the file is not truncated; a resize that fails leaves the length
\* and the file as they are.
C35_Original ==
    [][ret'.op = "resize" =>
          /\ available' = available /\ lent' = lent /\ exclusive' = exclusive
          /\ len' = len /\ ev' = <<>>
          /\ (ret'.res = "ok" /\ ret'.len > 0) => raw_len' = AlignUp(ret'.len)
          /\ (ret'.res = "ok" /\ raw_len = AlignUp(ret'.len)) => bytes' = bytes
          /\ ret'.res # "ok" => (raw_len' = raw_len /\ bytes' = bytes)]_vars

\* C36: no two blocks of available have intersecting ranges, and every
\* request of one byte or more is contained in at most one block of
\* available, so the search from the back has at most one candidate.
C36_AvailableDisjoint ==
    /\ \A i \in 1..Len(available), j \in 1..Len(available) :
          i # j => ~is_overlapping(available[i], available[j].off, available[j].len)
    /\ \A off \in 0..(MaxFileLen - 1), n \in 1..MaxFileLen :
          Cardinality({i \in 1..Len(available) : is_hit(available[i], off, n)}) <= 1

\* C36 witness: a Drop has just purged a block of available that the
\* returned block overlaps, and available holds two blocks.
C36_Witness ==
    /\ ret.op \in {"drop_ref", "drop_mut"}
    /\ Len(available) = 2
    /\ \E i \in 1..Len(ev) :
          /\ ev[i].e = "unmap"
          /\ is_overlapping(available[2], ev[i].off, ev[i].len)
    /\ acquire_available(available[1].off, 1) = 1

\* C37: a dirty cached block is the only cached mapping of its bytes: no
\* other block of available, lent or exclusive has a range that intersects
\* the range of a dirty block.
C37_Original ==
    \A b \in AllBlocks :
        b.dirty =>
            \A c \in AllBlocks :
                c.ptr # b.ptr => ~is_overlapping(c, b.off, b.len)

\* C38: every block of available, lent and exclusive ends at or before the
\* end of the file, also after a resize that made the file shorter.
C38_Original ==
    \A b \in AllBlocks : b.off + b.len <= raw_len

\* C39: in every state of every interleaving no two blocks of available,
\* lent and exclusive map the same (offset, length).
C39_Original ==
    \A b \in AllBlocks, c \in AllBlocks :
        b.ptr # c.ptr => <<b.off, b.len>> # <<c.off, c.len>>

====
